---- MODULE Spec2Model ----
(***************************************************************************)
(* A model of py-obsidian-actions: the x-callback-url builder and reply    *)
(* parser of xcall.py and the Vault / Note / DataviewQuery objects of      *)
(* obsidian.py.                                                            *)
(*                                                                         *)
(* Python strings are sequences of one-character strings, so that          *)
(* replace, quote, strip, startswith and the JSON reader work on           *)
(* characters as the code does.  Python values (str, bool, None, list,     *)
(* dict, number) are records [t, s, v]: t the type tag, s the text of a    *)
(* scalar, v the children of a container.  A dict is an insertion-ordered  *)
(* sequence of "pair" values, each holding its key in s and its value as   *)
(* the only child.                                                         *)
(***************************************************************************)
EXTENDS Integers, Sequences, FiniteSets, TLC

VARIABLES
    urlArgs,    \* the arguments of the last URL-building call
    urlOut,     \* its outcome: the URL built, or the exception raised
    parsePc,    \* "idle", "parsed" or "reparsed"
    parseIn,    \* the value last given to try_json_parse
    parseOut,   \* its outcome
    parseAgain, \* the outcome of try_json_parse on that outcome's value
    callArgs,   \* the arguments of the last xcall_raw or Vault.__call__ call
    callProc,   \* what the helper process did in it
    rawOut,     \* the outcome of xcall_raw
    replyOut,   \* the outcome of xcall: the interpreted reply
    callOut,    \* the outcome of Vault.__call__
    dqPc,       \* "none", "built" (dq is a DataviewQuery) or "failed"
    dq,         \* the DataviewQuery last returned: [fields, from_statement, statements]
    dqErr,      \* the exception Vault.dataview_query raised, or "none"
    dqArgs,     \* the arguments Vault.dataview_query was called with
    dqCalls,    \* the chain calls made since, in order: [op, term]
    dqRun,      \* the execution of the query: [dql, out]
    note,       \* the attributes of one Note object: a value, or Absent
    noteRemote, \* what the helper process answers to note/get at this moment
    noteFetches,    \* the note/get requests issued for the Note so far
    noteAccesses,   \* the attribute accesses made so far
    noteLast,   \* the last access: [attr, out, ran]
    noteFirst,  \* the first access: [ok, proc, reply]
    vaultCommands,  \* Vault.commands: the command ids listed at construction
    pgPc,       \* a periodic-note getter: "idle", "fetch1", "create", "fetch2", "done"
    pgKind,     \* the getter running
    pgFetches,  \* the get-current calls it has made
    pgCreates,  \* the creation commands it has invoked
    pgFirst,    \* the outcome of its first fetch
    pgCreate,   \* the outcome of its creation command
    pgSecond,   \* the outcome of its second fetch
    pgOut,      \* what it gave its caller
    argCall,    \* a call whose arguments are checked: [op, app, actions, keywords, ...]
    argOut,     \* its outcome, and whether the helper process was run in it
    baseCache,  \* the _base_path attribute of one Vault object: a value, or Absent
    baseRequests,   \* the info requests issued for that Vault so far
    baseOuts,   \* the outcomes of the accesses to base_path so far, in order
    editCall,   \* a call of a method of a Note that acts on the remote note
    editOut     \* its outcome, and whether a request was issued in it

urlVars == <<urlArgs, urlOut>>
parseVars == <<parsePc, parseIn, parseOut, parseAgain>>
callVars == <<callArgs, callProc, rawOut, replyOut, callOut>>
queryVars == <<dqPc, dq, dqErr, dqArgs, dqCalls, dqRun>>
noteVars == <<note, noteRemote, noteFetches, noteAccesses, noteLast, noteFirst>>
getterVars == <<pgPc, pgKind, pgFetches, pgCreates, pgFirst, pgCreate, pgSecond, pgOut>>
periodicVars == <<vaultCommands, getterVars>>
argVars == <<argCall, argOut>>
baseVars == <<baseCache, baseRequests, baseOuts>>
editVars == <<editCall, editOut>>
restVars == <<argVars, baseVars, editVars>>
vars == <<urlVars, parseVars, callVars, queryVars, noteVars, periodicVars, restVars>>

(***************************************************************************)
(* Python values                                                           *)
(***************************************************************************)
Str(s) == [t |-> "str", s |-> s, v |-> <<>>]
PyTrue == [t |-> "bool", s |-> <<"T", "r", "u", "e">>, v |-> <<>>]
PyFalse == [t |-> "bool", s |-> <<"F", "a", "l", "s", "e">>, v |-> <<>>]
PyNone == [t |-> "none", s |-> <<>>, v |-> <<>>]
Num(s) == [t |-> "num", s |-> s, v |-> <<>>]
List(v) == [t |-> "list", s |-> <<>>, v |-> v]
Dict(v) == [t |-> "dict", s |-> <<>>, v |-> v]
Pair(k, x) == [t |-> "pair", s |-> k, v |-> <<x>>]
KeyOf(p) == p.s
ValOf(p) == p.v[1]

(***************************************************************************)
(* Strings                                                                 *)
(***************************************************************************)
\* the element of a one-element set: Only({F(x) : x \in {e}}) is F(e) with e
\* evaluated once, however often F uses it
Only(S) == CHOOSE x \in S : TRUE

RECURSIVE Concat(_)
Concat(ss) == IF ss = <<>> THEN <<>> ELSE Head(ss) \o Concat(Tail(ss))

RECURSIVE Join(_, _)
\* sep.join(ss)
Join(sep, ss) ==
    IF ss = <<>> THEN <<>>
    ELSE IF Len(ss) = 1 THEN ss[1]
    ELSE ss[1] \o sep \o Join(sep, Tail(ss))

StartsWith(s, p) == Len(s) >= Len(p) /\ SubSeq(s, 1, Len(p)) = p
EndsWith(s, p) == Len(s) >= Len(p) /\ SubSeq(s, Len(s) - Len(p) + 1, Len(s)) = p
\* s.removeprefix(p), s.removesuffix(p)
RemovePrefix(s, p) == IF StartsWith(s, p) THEN SubSeq(s, Len(p) + 1, Len(s)) ELSE s
RemoveSuffix(s, p) == IF EndsWith(s, p) THEN SubSeq(s, 1, Len(s) - Len(p)) ELSE s
\* p in s
Contains(s, p) == \E i \in 0..(Len(s) - Len(p)) : SubSeq(s, i + 1, i + Len(p)) = p
\* s.replace(a, b) for one-character a and b
ReplaceChar(s, a, b) == [i \in 1..Len(s) |-> IF s[i] = a THEN b ELSE s[i]]
\* s.lower(), on the letters that str(True) and str(False) hold in upper case
Lower(s) == [i \in 1..Len(s) |-> IF s[i] = "T" THEN "t" ELSE IF s[i] = "F" THEN "f" ELSE s[i]]

(***************************************************************************)
(* urllib.parse.quote with its default safe="/": letters, digits and       *)
(* "_.-~/" are kept, every other character becomes %XX.                    *)
(***************************************************************************)
HexCode ==
    (" " :> <<"2", "0">>) @@ ("%" :> <<"2", "5">>) @@ ("&" :> <<"2", "6">>) @@
    ("=" :> <<"3", "D">>) @@ ("?" :> <<"3", "F">>) @@ (":" :> <<"3", "A">>) @@
    ("#" :> <<"2", "3">>) @@ ("'" :> <<"2", "7">>) @@ ("[" :> <<"5", "B">>) @@
    ("]" :> <<"5", "D">>) @@ ("\"" :> <<"2", "2">>) @@ ("," :> <<"2", "C">>) @@
    ("\n" :> <<"0", "A">>) @@ ("|" :> <<"7", "C">>) @@ ("(" :> <<"2", "8">>) @@
    (")" :> <<"2", "9">>) @@ ("!" :> <<"2", "1">>) @@ ("<" :> <<"3", "C">>) @@
    (">" :> <<"3", "E">>) @@ ("{" :> <<"7", "B">>) @@ ("}" :> <<"7", "D">>) @@
    ("*" :> <<"2", "A">>) @@ ("+" :> <<"2", "B">>) @@ (";" :> <<"3", "B">>) @@
    ("$" :> <<"2", "4">>) @@ ("@" :> <<"4", "0">>)

quote_char(c) == IF c \in DOMAIN HexCode THEN <<"%">> \o HexCode[c] ELSE <<c>>

\* a quote that leaves "&" and "=" as they are
quote_keeps_delimiters(s) ==
    Concat([i \in 1..Len(s) |-> IF s[i] \in {"&", "="} THEN <<s[i]>> ELSE quote_char(s[i])])

quote(s) == Concat([i \in 1..Len(s) |-> quote_char(s[i])])

(***************************************************************************)
(* xcall.py: update_key and build_url.  An outcome is [kind, url]: kind    *)
(* "ok" with the URL, or the name of the exception raised.                 *)
(***************************************************************************)
Ok(u) == [kind |-> "ok", url |-> u]
Raise(e) == [kind |-> e, url |-> <<>>]

\* new_key = key.replace("-", "_")
update_key_name(key) == ReplaceChar(key, "-", "_")

\* new_value: the lower-cased str() of a bool, any other value as it is
update_key_value(value) == IF value.t = "bool" THEN Str(Lower(value.s)) ELSE value

\* quote(new_value) raises TypeError on a value that is neither str nor bytes
update_key_raises(value) == update_key_value(value).t # "str"

update_key(key, value) ==
    update_key_name(key) \o <<"=">> \o quote(update_key_value(value).s)

build_url(app_name, actions, keywords) ==
    LET short_app_name == RemoveSuffix(app_name, <<".", "a", "p", "p">>)
        action_string == Join(<<"/">>, [i \in 1..Len(actions) |-> quote(actions[i])])
        pairs == [i \in 1..Len(keywords) |-> update_key(KeyOf(keywords[i]), ValOf(keywords[i]))]
        keyword_string == IF Len(keywords) > 0 THEN <<"?">> \o Join(<<"&">>, pairs) ELSE <<>>
    IN  IF Len(actions) = 0
        THEN IF Len(keywords) > 0 THEN Raise("ValueError") ELSE Ok(short_app_name)
        ELSE IF \E i \in 1..Len(keywords) : update_key_raises(ValOf(keywords[i]))
             THEN Raise("TypeError")
             ELSE Ok(short_app_name \o <<":", "/", "/">> \o action_string \o keyword_string)

(***************************************************************************)
(* obsidian.py, Vault.__call__: the keyword map without its None entries,  *)
(* and the URL handed to xcall.                                            *)
(***************************************************************************)
ObsidianApp == <<"o", "b", "s", "i", "d", "i", "a", "n">>
ActionsUri == <<"a", "c", "t", "i", "o", "n", "s", "-", "u", "r", "i">>
VaultKey == <<"v", "a", "u", "l", "t">>

keeps_none_kwargs(kwargs) == kwargs

\* {k: v for k, v in kwargs.items() if v is not None}
use_kwargs(kwargs) == SelectSeq(kwargs, LAMBDA p : ValOf(p).t # "none")

vault_url(name, actions, kwargs) ==
    build_url(ObsidianApp, <<ActionsUri>> \o actions,
              <<Pair(VaultKey, Str(name))>> \o use_kwargs(kwargs))

(***************************************************************************)
(* json.loads, on the JSON that the inputs of this model can hold:         *)
(* arrays, objects, strings with the escapes \" \\ \/, non-negative        *)
(* integers, true, false, null, and blanks between tokens.  A reader       *)
(* returns [ok, val, pos]: pos is the index after the value read.          *)
(***************************************************************************)
Digits == {"0", "1", "2", "3", "4", "5", "6", "7", "8", "9"}
IsWs(c) == c = " "

PFail == [ok |-> FALSE, val |-> PyNone, pos |-> 0]
POk(x, p) == [ok |-> TRUE, val |-> x, pos |-> p]

RECURSIVE SkipWs(_, _)
SkipWs(s, i) == IF i <= Len(s) /\ IsWs(s[i]) THEN SkipWs(s, i + 1) ELSE i

RECURSIVE DigitsEnd(_, _)
DigitsEnd(s, i) == IF i <= Len(s) /\ s[i] \in Digits THEN DigitsEnd(s, i + 1) ELSE i

\* d[k] = x on an insertion-ordered dict: a key already there keeps its place
DictSet(d, k, x) ==
    IF \E i \in 1..Len(d) : KeyOf(d[i]) = k
    THEN [i \in 1..Len(d) |-> IF KeyOf(d[i]) = k THEN Pair(k, x) ELSE d[i]]
    ELSE Append(d, Pair(k, x))

RECURSIVE scan_string(_, _, _)
\* the string whose opening quote is just before i
scan_string(s, i, acc) ==
    IF i > Len(s) THEN PFail
    ELSE IF s[i] = "\"" THEN POk(Str(acc), i + 1)
    ELSE IF s[i] = "\\"
         THEN IF i + 1 <= Len(s) /\ s[i + 1] \in {"\"", "\\", "/"}
              THEN scan_string(s, i + 2, Append(acc, s[i + 1]))
              ELSE PFail
         ELSE scan_string(s, i + 1, Append(acc, s[i]))

scan_number(s, i) ==
    IF s[i] = "0" THEN POk(Num(<<"0">>), i + 1)
    ELSE POk(Num(SubSeq(s, i, DigitsEnd(s, i) - 1)), DigitsEnd(s, i))

IsWord(s, i, w) == i + Len(w) - 1 <= Len(s) /\ SubSeq(s, i, i + Len(w) - 1) = w

RECURSIVE scan_once(_, _)
RECURSIVE array_items(_, _, _)
RECURSIVE object_items(_, _, _)
RECURSIVE array_rest(_, _, _)
RECURSIVE object_rest(_, _, _, _)
RECURSIVE object_value(_, _, _)

\* the rest of an array after its item r
array_rest(s, acc, r) ==
    LET j == SkipWs(s, r.pos)
    IN  IF ~r.ok \/ j > Len(s) THEN PFail
        ELSE IF s[j] = "]" THEN POk(List(Append(acc, r.val)), j + 1)
        ELSE IF s[j] = "," THEN array_items(s, SkipWs(s, j + 1), Append(acc, r.val))
        ELSE PFail

\* the items of an array, the first of them starting at i
array_items(s, i, acc) == Only({array_rest(s, acc, r) : r \in {scan_once(s, i)}})

\* the rest of an object after the key k and its value r
object_rest(s, acc, k, r) ==
    LET j == SkipWs(s, r.pos)
        n == SkipWs(s, j + 1)
    IN  IF ~r.ok \/ j > Len(s) THEN PFail
        ELSE IF s[j] = "}" THEN POk(Dict(DictSet(acc, k.val.s, r.val)), j + 1)
        ELSE IF s[j] = "," /\ n <= Len(s) /\ s[n] = "\""
             THEN object_items(s, n + 1, DictSet(acc, k.val.s, r.val))
        ELSE PFail

\* the value of the key k: a colon, then the value
object_value(s, acc, k) ==
    LET c == SkipWs(s, k.pos)
    IN  IF ~k.ok \/ c > Len(s) THEN PFail
        ELSE IF s[c] # ":" THEN PFail
        ELSE Only({object_rest(s, acc, k, r) : r \in {scan_once(s, SkipWs(s, c + 1))}})

\* the items of an object, the opening quote of the first key just before i
object_items(s, i, acc) == Only({object_value(s, acc, k) : k \in {scan_string(s, i, <<>>)}})

\* the JSON value that starts at i
scan_once(s, i) ==
    IF i > Len(s) THEN PFail
    ELSE IF s[i] = "\"" THEN scan_string(s, i + 1, <<>>)
    ELSE IF s[i] = "[" THEN
        LET j == SkipWs(s, i + 1)
        IN  IF j <= Len(s) /\ s[j] = "]" THEN POk(List(<<>>), j + 1)
            ELSE array_items(s, j, <<>>)
    ELSE IF s[i] = "{" THEN
        LET j == SkipWs(s, i + 1)
        IN  IF j > Len(s) THEN PFail
            ELSE IF s[j] = "}" THEN POk(Dict(<<>>), j + 1)
            ELSE IF s[j] = "\"" THEN object_items(s, j + 1, <<>>)
            ELSE PFail
    ELSE IF IsWord(s, i, <<"n", "u", "l", "l">>) THEN POk(PyNone, i + 4)
    ELSE IF IsWord(s, i, <<"t", "r", "u", "e">>) THEN POk(PyTrue, i + 4)
    ELSE IF IsWord(s, i, <<"f", "a", "l", "s", "e">>) THEN POk(PyFalse, i + 5)
    ELSE IF s[i] \in Digits THEN scan_number(s, i)
    ELSE PFail

\* json.loads(s): one value, blanks around it, nothing else
json_loads(s) ==
    Only({IF r.ok /\ SkipWs(s, r.pos) = Len(s) + 1 THEN r ELSE PFail :
            r \in {scan_once(s, SkipWs(s, 1))}})

(***************************************************************************)
(* xcall.py: try_json_parse.  Its outcome is [kind, val]: kind "ok" with   *)
(* the value returned, or the name of the exception raised.                *)
(***************************************************************************)
Returns(x) == [kind |-> "ok", val |-> x]
Raises(e) == [kind |-> e, val |-> PyNone]

RECURSIVE StripLeft(_)
StripLeft(s) == IF s # <<>> /\ IsWs(s[1]) THEN StripLeft(Tail(s)) ELSE s
RECURSIVE StripRight(_)
StripRight(s) ==
    IF s # <<>> /\ IsWs(s[Len(s)]) THEN StripRight(SubSeq(s, 1, Len(s) - 1)) ELSE s
\* s.strip()
Strip(s) == StripRight(StripLeft(s))

\* the string looks like a JSON array / a JSON object
LooksLikeArray(s) == Strip(s) # <<>> /\ Head(Strip(s)) = "[" /\ Strip(s)[Len(Strip(s))] = "]"
LooksLikeObject(s) == Strip(s) # <<>> /\ Head(Strip(s)) = "{" /\ Strip(s)[Len(Strip(s))] = "}"

RECURSIVE try_json_parse(_)

\* a parse that does not pass the elements back through try_json_parse
parse_children_shallow(children) == Returns(children)

\* the comprehension over the elements of a parsed array or object
parse_children(children) ==
    Only({IF \E i \in 1..Len(rs) : rs[i].kind # "ok"
          THEN Raises("JSONDecodeError")
          ELSE Returns([i \in 1..Len(children) |->
                          IF children[i].t = "pair"
                          THEN Pair(KeyOf(children[i]), rs[i].val)
                          ELSE rs[i].val]) :
          rs \in {[i \in 1..Len(children) |->
                      IF children[i].t = "pair"
                      THEN try_json_parse(ValOf(children[i]))
                      ELSE try_json_parse(children[i])]}})

try_json_parse(input) ==
    IF input.t # "str" THEN Returns(input)
    ELSE IF Strip(input.s) = <<>> THEN Returns(input)
    ELSE IF LooksLikeArray(input.s) \/ LooksLikeObject(input.s) THEN
        Only({IF ~loaded.ok THEN Raises("JSONDecodeError")
              ELSE Only({IF parsed.kind # "ok" THEN Raises("JSONDecodeError")
                         ELSE Returns([loaded.val EXCEPT !.v = parsed.val]) :
                         parsed \in {parse_children(loaded.val.v)}}) :
              loaded \in {json_loads(input.s)}})
    ELSE Returns(input)

(***************************************************************************)
(* str() and repr() of a value, as the f-string of xcall_raw formats the   *)
(* error message.  repr of a string is written for strings without         *)
(* backslashes: in double quotes when it holds a single quote, in single   *)
(* quotes otherwise.                                                       *)
(***************************************************************************)
RECURSIVE py_repr(_)
py_repr(x) ==
    IF x.t = "str"
    THEN IF Contains(x.s, <<"'">>) /\ ~Contains(x.s, <<"\"">>)
         THEN <<"\"">> \o x.s \o <<"\"">>
         ELSE <<"'">> \o x.s \o <<"'">>
    ELSE IF x.t = "none" THEN <<"N", "o", "n", "e">>
    ELSE IF x.t = "list"
         THEN <<"[">> \o Join(<<",", " ">>, [i \in 1..Len(x.v) |-> py_repr(x.v[i])]) \o <<"]">>
    ELSE IF x.t = "dict"
         THEN <<"{">> \o Join(<<",", " ">>, [i \in 1..Len(x.v) |-> py_repr(x.v[i])]) \o <<"}">>
    ELSE IF x.t = "pair" THEN py_repr(Str(KeyOf(x))) \o <<":", " ">> \o py_repr(ValOf(x))
    ELSE x.s

py_str(x) == IF x.t = "str" THEN x.s ELSE py_repr(x)

(***************************************************************************)
(* xcall.py: xcall_raw and xcall.  proc is what the helper process does:   *)
(* binary tells whether xcall_binary() finds it, stdout and stderr are     *)
(* what it writes.  An outcome is [kind, val, ran]: ran tells whether the  *)
(* helper process was run.                                                 *)
(***************************************************************************)
Outcome(kind, val, ran) == [kind |-> kind, val |-> val, ran |-> ran]
NoOutcome == Outcome("none", PyNone, FALSE)

ErrorMessageKey == <<"e", "r", "r", "o", "r", "M", "e", "s", "s", "a", "g", "e">>
ReturnedAnError == <<" ", "r", "e", "t", "u", "r", "n", "e", "d", " ", "a", "n", " ", "e", "r", "r", "o", "r", " ", "m", "e", "s", "s", "a", "g", "e", ":", " ">>

DictHas(d, k) == \E i \in 1..Len(d.v) : KeyOf(d.v[i]) = k
\* d[k]
DictGet(d, k) == ValOf(d.v[CHOOSE i \in 1..Len(d.v) : KeyOf(d.v[i]) = k])

\* the part of xcall_raw after the URL is known: run the helper, read its streams
run_helper(url, proc) ==
    IF Len(proc.stderr) > 0
    THEN Only({IF err.kind # "ok" THEN Outcome(err.kind, PyNone, TRUE)
               ELSE IF err.val.t # "dict" THEN Outcome("TypeError", PyNone, TRUE)
               ELSE IF ~DictHas(err.val, ErrorMessageKey) THEN Outcome("KeyError", PyNone, TRUE)
               ELSE Outcome("ChildProcessError",
                            Str(url \o ReturnedAnError
                                    \o py_str(DictGet(err.val, ErrorMessageKey))),
                            TRUE) :
               err \in {try_json_parse(Str(proc.stderr))}})
    ELSE Outcome("ok", Str(proc.stdout), TRUE)

xcall_raw(app_name, actions, keywords, proc) ==
    IF ~proc.binary THEN Outcome("FileNotFoundError", PyNone, FALSE)
    ELSE IF Contains(app_name, <<":", "/">>)
         THEN IF Len(actions) > 0 \/ Len(keywords) > 0
              THEN Outcome("ValueError", PyNone, FALSE)
              ELSE run_helper(app_name, proc)
    ELSE Only({IF built.kind # "ok" THEN Outcome(built.kind, PyNone, FALSE)
               ELSE run_helper(built.url, proc) :
               built \in {build_url(app_name, actions, keywords)}})

xcall(app_name, actions, keywords, proc) ==
    Only({IF raw.kind # "ok" THEN raw
          ELSE Only({Outcome(parsed.kind, parsed.val, raw.ran) :
                     parsed \in {try_json_parse(raw.val)}}) :
          raw \in {xcall_raw(app_name, actions, keywords, proc)}})

(***************************************************************************)
(* obsidian.py: Vault.__call__.                                            *)
(***************************************************************************)
ResultPrefix == <<"r", "e", "s", "u", "l", "t", "-">>

RECURSIVE strip_result_keys(_, _)
\* {k.removeprefix("result-"): v for k, v in result.items()}
strip_result_keys(entries, acc) ==
    IF entries = <<>> THEN acc
    ELSE strip_result_keys(Tail(entries),
                           DictSet(acc, RemovePrefix(KeyOf(Head(entries)), ResultPrefix),
                                   ValOf(Head(entries))))

\* len(result)
py_len(x) == IF x.t = "str" THEN Len(x.s) ELSE Len(x.v)

\* a post-processing that strips the keys of every reply, one entry or not
vault_result_never_unwrapped(result) ==
    IF result.t # "dict" THEN Raises("AttributeError")
    ELSE Returns(Dict(strip_result_keys(result.v, <<>>)))

\* lines 40-42: the single value, or the mapping with its keys stripped
vault_result(result) ==
    IF result.t \notin {"str", "list", "dict"} THEN Raises("TypeError")
    ELSE IF result.t # "dict" THEN Raises("AttributeError")
    ELSE IF py_len(result) = 1 THEN Returns(ValOf(result.v[1]))
    ELSE Returns(Dict(strip_result_keys(result.v, <<>>)))

vault_call(name, actions, kwargs, proc) ==
    Only({IF result.kind # "ok" THEN result
          ELSE Only({Outcome(post.kind, post.val, result.ran) :
                     post \in {vault_result(result.val)}}) :
          result \in {xcall(ObsidianApp, <<ActionsUri>> \o actions,
                            <<Pair(VaultKey, Str(name))>> \o use_kwargs(kwargs), proc)}})

(***************************************************************************)
(* obsidian.py: DataviewQuery and Vault.dataview_query.  A query is        *)
(* [fields, from_statement, statements]: fields is None or a list of       *)
(* strings.  A source is [t, s]: a Tag, a string, or the bound method      *)
(* incoming / outgoing of the Note named s.                                *)
(***************************************************************************)
Query(fields, from_statement, statements) ==
    [fields |-> fields, from_statement |-> from_statement, statements |-> statements]

\* no query: nothing was returned
NoQuery == [fields |-> PyNone, from_statement |-> <<>>, statements |-> <<>>]
NoQueryArgs == [sources |-> <<>>, combine |-> <<>>, fields |-> PyNone]

\* DataviewQuery.type
dq_type_constant(q) == "TABLE"

dq_type(q) == IF q.fields = PyNone THEN "LIST" ELSE "TABLE"

\* Note.incoming_q, Note.outgoing_q, Tag.__repr__
incoming_q(name) == <<"[", "[">> \o name \o <<"]", "]">>
outgoing_q(name) == <<"o", "u", "t", "g", "o", "i", "n", "g", "(">> \o incoming_q(name) \o <<")">>
tag_repr(name) == <<"#">> \o name

source_to_string(source) ==
    IF source.t = "incoming" THEN incoming_q(source.s)
    ELSE IF source.t = "outgoing" THEN outgoing_q(source.s)
    ELSE IF source.t = "tag" THEN tag_repr(source.s)
    ELSE source.s

CombineAnd == <<"a", "n", "d">>
CombineOr == <<"o", "r">>

\* Vault.dataview_query(*sources, combine, fields): [err, query]
dataview_query(sources, combine, fields) ==
    IF Len(sources) = 0 THEN [err |-> "ValueError", query |-> NoQuery]
    ELSE IF combine \notin {CombineAnd, CombineOr} /\ Len(sources) > 1
         THEN [err |-> "ValueError", query |-> NoQuery]
    ELSE [err |-> "none",
          query |-> Query(fields,
                          <<"F", "R", "O", "M", " ">> \o Join(<<" ">> \o combine \o <<" ">>,
                                         [i \in 1..Len(sources) |-> source_to_string(sources[i])]),
                          <<>>)]

\* DataviewQuery.__repr__
dq_repr(q) ==
    LET first_line == IF dq_type(q) = "TABLE"
                      THEN <<"T", "A", "B", "L", "E", " ">> \o Join(<<",", " ">>, [i \in 1..Len(q.fields.v) |-> q.fields.v[i].s])
                      ELSE <<"L", "I", "S", "T">>
    IN  Join(<<"\n">>, <<first_line, q.from_statement>> \o q.statements)

SortWord == <<"S", "O", "R", "T", " ">>

dq_where(q, clause) ==
    Query(q.fields, q.from_statement, Append(q.statements, <<"W", "H", "E", "R", "E", " ">> \o clause))

\* the term of a sort call: the field and its direction
sort_cmd(field, ascending) ==
    field \o <<" ">> \o (IF ascending THEN <<"A", "S", "C", "E", "N", "D", "I", "N", "G">> ELSE <<"D", "E", "S", "C", "E", "N", "D", "I", "N", "G">>)

\* a sort that merges into the first SORT clause it finds, wherever it is
dq_sort_merges_anywhere(q, field, ascending) ==
    IF \E i \in 1..Len(q.statements) : StartsWith(q.statements[i], SortWord)
    THEN LET k == CHOOSE i \in 1..Len(q.statements) :
                    /\ StartsWith(q.statements[i], SortWord)
                    /\ \A j \in 1..(i - 1) : ~StartsWith(q.statements[j], SortWord)
         IN  Query(q.fields, q.from_statement,
                   [q.statements EXCEPT ![k] = @ \o <<",", " ">> \o sort_cmd(field, ascending)])
    ELSE Query(q.fields, q.from_statement,
               Append(q.statements, SortWord \o sort_cmd(field, ascending)))

dq_sort(q, field, ascending) ==
    LET cmd == sort_cmd(field, ascending)
        n == Len(q.statements)
    IN  IF n > 0 /\ StartsWith(q.statements[n], SortWord)
        THEN Query(q.fields, q.from_statement,
                   SubSeq(q.statements, 1, n - 1) \o <<q.statements[n] \o <<",", " ">> \o cmd>>)
        ELSE Query(q.fields, q.from_statement, Append(q.statements, SortWord \o cmd))

dq_group_by(q, field, new_name) ==
    LET cmd == IF new_name = PyNone THEN <<"G", "R", "O", "U", "P", " ", "B", "Y", " ">> \o field
               ELSE <<"G", "R", "O", "U", "P", " ", "B", "Y", " ">> \o field \o <<" ", "A", "S", " ">> \o new_name.s
    IN  Query(q.fields, q.from_statement, Append(q.statements, cmd))

dq_flatten(q, field, new_name) ==
    LET cmd == IF new_name = PyNone THEN <<"F", "L", "A", "T", "T", "E", "N", " ">> \o field
               ELSE <<"F", "L", "A", "T", "T", "E", "N", " ">> \o field \o <<" ", "A", "S", " ">> \o new_name.s
    IN  Query(q.fields, q.from_statement, Append(q.statements, cmd))

\* number is the text of str(number)
dq_limit(q, number) ==
    Query(q.fields, q.from_statement, Append(q.statements, <<"L", "I", "M", "I", "T", " ">> \o number))

(***************************************************************************)
(* obsidian.py: Note.  The object's attributes are a function from the     *)
(* attribute name to its value, Absent while the attribute is not set.     *)
(***************************************************************************)
Absent == [t |-> "absent", s |-> <<>>, v |-> <<>>]

NoteParams == <<<<"f", "i", "l", "e", "p", "a", "t", "h">>, <<"f", "r", "o", "n", "t", "-", "m", "a", "t", "t", "e", "r">>, <<"c", "o", "n", "t", "e", "n", "t">>, <<"p", "r", "o", "p", "e", "r", "t", "i", "e", "s">>, <<"b", "o", "d", "y">>>>
\* "_" + param.replace("-", "_")
Attr(param) == <<"_">> \o ReplaceChar(param, "-", "_")
FilepathAttr == Attr(NoteParams[1])
FrontMatterAttr == Attr(NoteParams[2])
ContentAttr == Attr(NoteParams[3])
PropertiesAttr == Attr(NoteParams[4])
BodyAttr == Attr(NoteParams[5])
NoteAttrs == {Attr(NoteParams[i]) : i \in 1..Len(NoteParams)}

\* Note.__init__: the name without its ".md"; no attribute is set
note_name(name) == RemoveSuffix(name, <<".", "m", "d">>)
NewNote == [a \in NoteAttrs |-> Absent]

RECURSIVE set_attributes(_, _, _)
\* the loop of _load_attributes: setattr(self, attr, reply_get[param])
set_attributes(obj, reply_get, params) ==
    IF params = <<>> THEN [note |-> obj, err |-> "none"]
    ELSE IF reply_get.t # "dict" THEN [note |-> obj, err |-> "TypeError"]
    ELSE IF ~DictHas(reply_get, Head(params)) THEN [note |-> obj, err |-> "KeyError"]
    ELSE set_attributes([obj EXCEPT ![Attr(Head(params))] = DictGet(reply_get, Head(params))],
                        reply_get, Tail(params))

IsListOfDicts(value) ==
    value.t = "list" /\ \A i \in 1..Len(value.v) : value.v[i].t = "dict"

RECURSIVE merge_pairs(_, _)
merge_pairs(pairs, acc) ==
    IF pairs = <<>> THEN acc
    ELSE merge_pairs(Tail(pairs), DictSet(acc, KeyOf(Head(pairs)), ValOf(Head(pairs))))

RECURSIVE merge_dicts(_, _)
\* {k: v for d in value for k, v in d.items()}
merge_dicts(ds, acc) ==
    IF ds = <<>> THEN acc ELSE merge_dicts(Tail(ds), merge_pairs(Head(ds).v, acc))

\* Note._fix_properties, on the value of _properties
fix_properties(properties) ==
    IF properties.t # "dict" THEN Raises("AttributeError")
    ELSE Returns(Dict([i \in 1..Len(properties.v) |->
                        IF IsListOfDicts(ValOf(properties.v[i]))
                        THEN Pair(KeyOf(properties.v[i]),
                                  Dict(merge_dicts(ValOf(properties.v[i]).v, <<>>)))
                        ELSE properties.v[i]]))

NoteAction == <<<<"n", "o", "t", "e">>, <<"g", "e", "t">>>>
FileKey == <<"f", "i", "l", "e">>

\* what _load_attributes does once it has decided to fetch: [note, err, ran]
fetch_attributes(obj, vault, name, proc) ==
    Only({IF reply.kind # "ok" THEN [note |-> obj, err |-> reply.kind, ran |-> reply.ran]
          ELSE Only({IF set.err # "none"
                     THEN [note |-> set.note, err |-> set.err, ran |-> reply.ran]
                     ELSE Only({IF fixed.kind # "ok"
                                THEN [note |-> set.note, err |-> fixed.kind, ran |-> reply.ran]
                                ELSE [note |-> [set.note EXCEPT ![PropertiesAttr] = fixed.val],
                                      err |-> "none", ran |-> reply.ran] :
                                fixed \in {fix_properties(set.note[PropertiesAttr])}}) :
                     set \in {set_attributes(obj, reply.val, NoteParams)}}) :
          reply \in {vault_call(vault, NoteAction, <<Pair(FileKey, Str(name))>>, proc)}})

\* a load that fetches whether or not the attributes are there
load_attributes_always_fetches(obj, vault, name, proc) ==
    fetch_attributes(obj, vault, name, proc)

\* Note._load_attributes
load_attributes(obj, vault, name, proc) ==
    IF obj[ContentAttr] # Absent THEN [note |-> obj, err |-> "none", ran |-> FALSE]
    ELSE fetch_attributes(obj, vault, name, proc)

\* the properties content, body, front_matter, properties, path_internal:
\* load, then return the attribute: [note, out, ran]
note_attribute(obj, attr, vault, name, proc) ==
    Only({[note |-> loaded.note,
           out |-> IF loaded.err # "none" THEN Raises(loaded.err)
                   ELSE IF loaded.note[attr] = Absent THEN Raises("AttributeError")
                   ELSE Returns(loaded.note[attr]),
           ran |-> loaded.ran] :
          loaded \in {load_attributes(obj, vault, name, proc)}})

(***************************************************************************)
(* obsidian.py: DataviewQuery.__call__ and the Notes it returns.           *)
(***************************************************************************)
\* self.type.lower() + "-query"
query_action(q) == (IF dq_type(q) = "LIST" THEN <<"l", "i", "s", "t">> ELSE <<"t", "a", "b", "l", "e">>) \o <<"-", "q", "u", "e", "r", "y">>
DataviewAction == <<"d", "a", "t", "a", "v", "i", "e", "w">>
DqlKey == <<"d", "q", "l">>

\* an execution that sends the clauses sorted into one fixed order
clauses_of_kind(statements, word) == SelectSeq(statements, LAMBDA st : StartsWith(st, word))
dql_in_fixed_order(q) ==
    dq_repr(Query(q.fields, q.from_statement,
                  clauses_of_kind(q.statements, <<"W", "H", "E", "R", "E", " ">>)
                  \o clauses_of_kind(q.statements, <<"F", "L", "A", "T", "T", "E", "N", " ">>)
                  \o clauses_of_kind(q.statements, <<"G", "R", "O", "U", "P", " ", "B", "Y", " ">>)
                  \o clauses_of_kind(q.statements, <<"S", "O", "R", "T", " ">>)
                  \o clauses_of_kind(q.statements, <<"L", "I", "M", "I", "T", " ">>)))

\* the keyword arguments of the execution: dql=str(self)
dql_of(q) == dq_repr(q)

\* link[2:].split("|")[0]
link_name(link) ==
    LET rest == SubSeq(link, 3, Len(link))
    IN  IF \E i \in 1..Len(rest) : rest[i] = "|"
        THEN SubSeq(rest, 1, (CHOOSE i \in 1..Len(rest) :
                                /\ rest[i] = "|"
                                /\ \A j \in 1..(i - 1) : rest[j] # "|") - 1)
        ELSE rest

\* what iterating over the reply gives
links_of(result) ==
    IF result.t = "list" THEN result.v
    ELSE IF result.t = "dict" THEN [i \in 1..Len(result.v) |-> Str(KeyOf(result.v[i]))]
    ELSE [i \in 1..Len(result.s) |-> Str(<<result.s[i]>>)]

RECURSIVE notes_data(_, _)
\* Notes.__init__: {note.name: note}, the names in the order they first come
notes_data(names, acc) ==
    IF names = <<>> THEN acc
    ELSE notes_data(Tail(names),
                    IF \E i \in 1..Len(acc) : acc[i] = Head(names) THEN acc
                    ELSE Append(acc, Head(names)))

Notes(names) == [t |-> "notes", s |-> <<>>, v |-> names]

\* the LIST branch: Notes(self.vault, filenames)
notes_of(result) ==
    IF result.t \notin {"str", "list", "dict"} THEN Raises("TypeError")
    ELSE Only({IF \E i \in 1..Len(links) : links[i].t \in {"num", "bool", "none", "dict"}
               THEN Raises("TypeError")
               ELSE IF \E i \in 1..Len(links) : links[i].t # "str"
               THEN Raises("AttributeError")
               ELSE Returns(Notes(notes_data([i \in 1..Len(links) |->
                                Str(note_name(link_name(links[i].s)))], <<>>))) :
               links \in {links_of(result)}})

\* DataviewQuery.__call__: [dql, out]
dq_call(q, vault, proc) ==
    Only({[dql |-> dql,
           out |-> Only({IF result.kind # "ok" \/ dq_type(q) # "LIST" THEN result
                         ELSE Only({Outcome(made.kind, made.val, result.ran) :
                                    made \in {notes_of(result.val)}}) :
                         result \in {vault_call(vault, <<DataviewAction, query_action(q)>>,
                                                <<Pair(DqlKey, Str(dql))>>, proc)}})] :
          dql \in {dql_of(q)}})

(***************************************************************************)
(* obsidian.py: Commands, Command and the periodic-note getters            *)
(* daily_note, weekly_note, monthly_note, quarterly_note, yearly_note.     *)
(* A getter is named by its period; Vault.commands is the list of the      *)
(* command ids that command/list gave when the Vault was made.             *)
(***************************************************************************)
Daily == <<"d", "a", "i", "l", "y">>
Periods == {Daily, <<"w", "e", "e", "k", "l", "y">>, <<"m", "o", "n", "t", "h", "l", "y">>, <<"q", "u", "a", "r", "t", "e", "r", "l", "y">>, <<"y", "e", "a", "r", "l", "y">>}

\* the first action of the get-current call of a getter
getter_action(period) == period \o <<"-", "n", "o", "t", "e">>
GetCurrent == <<"g", "e", "t", "-", "c", "u", "r", "r", "e", "n", "t">>
SilentKey == <<"s", "i", "l", "e", "n", "t">>
\* the attribute of Vault.commands a getter calls to create its note
creation_attribute(period) ==
    IF period = Daily THEN <<"d", "a", "i", "l", "y", "_", "n", "o", "t", "e", "s">>
    ELSE <<"p", "e", "r", "i", "o", "d", "i", "c", "_", "n", "o", "t", "e", "s", "_", "o", "p", "e", "n", "_">> \o period \o <<"_", "n", "o", "t", "e">>

\* Commands.__init__: command.id.replace(":", "_").replace("-", "_")
attribute_key(id) == ReplaceChar(ReplaceChar(id, ":", "_"), "-", "_")

\* Commands.__getattr__: the id of the command, or AttributeError
commands_getattr(commands, name) ==
    IF \E i \in 1..Len(commands) : attribute_key(commands[i]) = name
    THEN Returns(Str(commands[CHOOSE i \in 1..Len(commands) :
                                /\ attribute_key(commands[i]) = name
                                /\ \A j \in (i + 1)..Len(commands) :
                                    attribute_key(commands[j]) # name]))
    ELSE Raises("AttributeError")

\* Command.__call__
command_call(vault, id, proc) ==
    vault_call(vault, <<<<"c", "o", "m", "m", "a", "n", "d">>, <<"e", "x", "e", "c", "u", "t", "e">>>>, <<Pair(<<"c", "o", "m", "m", "a", "n", "d", "s">>, Str(id))>>, proc)

\* self(period-note, "get-current", silent=True)["filepath"]
fetch_current(vault, period, proc) ==
    Only({IF reply.kind # "ok" THEN reply
          ELSE IF reply.val.t # "dict" THEN Outcome("TypeError", PyNone, reply.ran)
          ELSE IF ~DictHas(reply.val, NoteParams[1]) THEN Outcome("KeyError", PyNone, reply.ran)
          ELSE Outcome("ok", DictGet(reply.val, NoteParams[1]), reply.ran) :
          reply \in {vault_call(vault, <<getter_action(period), GetCurrent>>,
                                <<Pair(SilentKey, PyTrue)>>, proc)}})

\* a handler that takes every ChildProcessError for a missing note
not_found_whatever_the_text(e) == e.kind = "ChildProcessError"

\* except ChildProcessError as e, and "Note couldn't be found" in e.args[0]
not_found(e) ==
    e.kind = "ChildProcessError" /\ Contains(e.val.s, <<"N", "o", "t", "e", " ", "c", "o", "u", "l", "d", "n", "'", "t", " ", "b", "e", " ", "f", "o", "u", "n", "d">>)

\* return Note(self, name)
new_note(name) ==
    IF name.t # "str" THEN Outcome("AttributeError", PyNone, TRUE)
    ELSE Outcome("ok", Str(note_name(name.s)), TRUE)

(***************************************************************************)
(* obsidian.py: Vault.note_create.  The outcome holds the name of the Note *)
(* returned.                                                               *)
(***************************************************************************)
CreateAction == <<<<"n", "o", "t", "e">>, <<"c", "r", "e", "a", "t", "e">>>>
ContentWord == <<"c", "o", "n", "t", "e", "n", "t">>
TemplateWord == <<"t", "e", "m", "p", "l", "a", "t", "e">>

\* the keyword arguments of the note/create request
create_kwargs(filename, content, template, overwrite, silent) ==
    <<Pair(FileKey, Str(filename)),
      Pair(<<"a", "p", "p", "l", "y">>, Str(IF template = PyNone THEN ContentWord ELSE TemplateWord)),
      Pair(ContentWord, IF template = PyNone /\ content = PyNone THEN Str(<<>>) ELSE content),
      Pair(TemplateWord, template),
      Pair(<<"i", "f", "_", "e", "x", "i", "s", "t", "s">>,
           Str(IF overwrite THEN <<"o", "v", "e", "r", "w", "r", "i", "t", "e">> ELSE <<"s", "k", "i", "p">>)),
      Pair(SilentKey, IF silent THEN PyTrue ELSE PyFalse)>>

\* the request made and the Note returned
create_request(vault, filename, content, template, overwrite, silent, proc) ==
    Only({IF reply.kind # "ok" THEN reply
          ELSE Outcome("ok", Str(note_name(filename)), reply.ran) :
          reply \in {vault_call(vault, CreateAction,
                                create_kwargs(filename, content, template, overwrite, silent),
                                proc)}})

\* a note_create that makes its request before it looks at content and template
note_create_checks_late(vault, filename, content, template, overwrite, silent, proc) ==
    Only({IF content # PyNone /\ template # PyNone /\ made.kind = "ok"
          THEN Outcome("ValueError", PyNone, made.ran)
          ELSE made :
          made \in {create_request(vault, filename, content, template, overwrite, silent, proc)}})

note_create(vault, filename, content, template, overwrite, silent, proc) ==
    IF content # PyNone /\ template # PyNone THEN Outcome("ValueError", PyNone, FALSE)
    ELSE create_request(vault, filename, content, template, overwrite, silent, proc)

(***************************************************************************)
(* obsidian.py: Vault.base_path.  The Vault object's _base_path attribute  *)
(* is a value, or Absent.  A call gives [cache, out].                      *)
(***************************************************************************)
InfoAction == <<<<"i", "n", "f", "o">>>>
BasePathKey == ResultPrefix \o <<"b", "a", "s", "e", "-", "p", "a", "t", "h">>

\* value[key], for a key that is a str
subscript(value, key) ==
    IF value.t = "dict"
    THEN IF DictHas(value, key) THEN Returns(DictGet(value, key)) ELSE Raises("KeyError")
    ELSE Raises("TypeError")

base_path(cache, vault, proc) ==
    IF cache # Absent THEN [cache |-> cache, out |-> Outcome("ok", cache, FALSE)]
    ELSE Only({IF info.kind # "ok" THEN [cache |-> cache, out |-> info]
               ELSE Only({IF found.kind # "ok"
                          THEN [cache |-> cache, out |-> Outcome(found.kind, PyNone, info.ran)]
                          ELSE [cache |-> found.val, out |-> Outcome("ok", found.val, info.ran)] :
                          found \in {subscript(info.val, BasePathKey)}}) :
               info \in {vault_call(vault, InfoAction, <<>>, proc)}})

(***************************************************************************)
(* obsidian.py: Note.append, Note.prepend, Note.open, Note.replace and     *)
(* Note.delete.  A Note object holds vault and name, and the attributes    *)
(* _load_attributes has set; the class gives it its properties and         *)
(* methods.                                                                *)
(***************************************************************************)
NameWord == <<"n", "a", "m", "e">>
FilepathWord == <<"f", "i", "l", "e", "p", "a", "t", "h">>
\* self.<attr>, for an attr that is no property of the class: the instance
\* attribute of that name, or AttributeError
instance_attribute(obj, name, attr) ==
    IF attr = NameWord THEN Returns(Str(name))
    ELSE IF attr \in NoteAttrs /\ obj[attr] # Absent THEN Returns(obj[attr])
    ELSE Raises("AttributeError")

\* the second action of the request
edit_action(method, flag) ==
    IF method = "append" THEN <<"a", "p", "p", "e", "n", "d">>
    ELSE IF method = "prepend" THEN <<"p", "r", "e", "p", "e", "n", "d">>
    ELSE IF method = "open" THEN <<"o", "p", "e", "n">>
    ELSE IF method = "replace"
    THEN IF flag THEN <<"s", "e", "a", "r", "c", "h", "-", "r", "e", "g", "e", "x", "-", "a", "n", "d", "-", "r", "e", "p", "l", "a", "c", "e">>
         ELSE <<"s", "e", "a", "r", "c", "h", "-", "s", "t", "r", "i", "n", "g", "-", "a", "n", "d", "-", "r", "e", "p", "l", "a", "c", "e">>
    ELSE IF flag THEN <<"t", "r", "a", "s", "h">> ELSE <<"d", "e", "l", "e", "t", "e">>

EditText == Str(<<"t">>)
\* the keyword arguments of the request; flag is ensure_newline for append and
\* prepend, and the other arguments have their defaults
edit_kwargs(method, flag, file) ==
    <<Pair(FileKey, file)>> \o
    (IF method \in {"append", "prepend"}
     THEN <<Pair(ContentWord, EditText),
            Pair(<<"b", "e", "l", "o", "w", "_", "h", "e", "a", "d", "l", "i", "n", "e">>, PyNone),
            Pair(<<"c", "r", "e", "a", "t", "e", "_", "i", "f", "_", "n", "o", "t", "_", "f", "o", "u", "n", "d">>, PyFalse),
            Pair(<<"e", "n", "s", "u", "r", "e", "_", "n", "e", "w", "l", "i", "n", "e">>, IF flag THEN PyTrue ELSE PyFalse),
            Pair(SilentKey, PyFalse)>>
     ELSE IF method = "replace"
     THEN <<Pair(<<"s", "e", "a", "r", "c", "h">>, EditText), Pair(<<"r", "e", "p", "l", "a", "c", "e">>, EditText),
            Pair(SilentKey, PyFalse)>>
     ELSE <<>>)

\* self.vault("note", ..., file=..., ...)
edit_request(vault, method, flag, file, proc) ==
    vault_call(vault, <<<<"n", "o", "t", "e">>, edit_action(method, flag)>>,
               edit_kwargs(method, flag, file), proc)

\* note.append(...), note.prepend(...), note.open(), note.replace(...),
\* note.delete(...): self.filepath is looked up first
note_edit(obj, vault, name, method, flag, proc) ==
    Only({IF file.kind # "ok" THEN Outcome(file.kind, PyNone, FALSE)
          ELSE edit_request(vault, method, flag, file.val, proc) :
          file \in {instance_attribute(obj, name, FilepathWord)}})

(***************************************************************************)
(* The URL-building calls.  Segments, keys and values are drawn from small *)
(* sets that hold the characters the builder treats specially; a call has  *)
(* at most MaxParts action segments and keyword entries together.          *)
(***************************************************************************)
MaxParts == 3

Apps == {ObsidianApp, <<"x", ".", "a", "p", "p">>}
VaultNames == {<<"w">>, <<"m", "y", " ", "v">>}
Segments == {<<"a">>, <<"a", "/", "b">>, <<"a", " ", "b">>, <<"%">>}
Keys == {<<"k">>, <<"a", "_", "b">>, <<"a", "-", "b">>}
Values == {Str(<<"v">>), Str(<<"x", "&", "y", "=", "z">>), Str(<<"p", "/", "q", " ", "%">>),
           PyTrue, PyFalse, PyNone}

RECURSIVE SeqsOf(_, _)
\* the sequences of exactly n elements of S
SeqsOf(S, n) == IF n = 0 THEN {<<>>} ELSE {<<x>> \o r : x \in S, r \in SeqsOf(S, n - 1)}

RECURSIVE KeywordMaps(_)
\* the keyword mappings of exactly n entries, their keys distinct
KeywordMaps(n) ==
    IF n = 0 THEN {<<>>}
    ELSE UNION {{Append(m, Pair(k, x)) :
                    k \in Keys \ {KeyOf(m[i]) : i \in 1..Len(m)}, x \in Values} :
                m \in KeywordMaps(n - 1)}

CallArgs ==
    UNION {{[actions |-> a, keywords |-> m] :
                a \in SeqsOf(Segments, ij[1]), m \in KeywordMaps(ij[2])} :
           ij \in {ij \in (0..MaxParts) \X (0..MaxParts) : ij[1] + ij[2] <= MaxParts}}

IdleUrl ==
    /\ urlArgs = [via |-> "none", app |-> <<>>, actions |-> <<>>, keywords |-> <<>>]
    /\ urlOut = Ok(<<>>)

NoCall == [via |-> "none", app |-> <<>>, actions |-> <<>>, keywords |-> <<>>]
NoProc == [binary |-> FALSE, stdout |-> <<>>, stderr |-> <<>>]

IdleCall ==
    /\ callArgs = NoCall
    /\ callProc = NoProc
    /\ rawOut = NoOutcome
    /\ replyOut = NoOutcome
    /\ callOut = NoOutcome

NoRun == [dql |-> <<>>, out |-> NoOutcome]

IdleQuery ==
    /\ dqPc = "none"
    /\ dq = NoQuery
    /\ dqErr = "none"
    /\ dqArgs = NoQueryArgs
    /\ dqCalls = <<>>
    /\ dqRun = NoRun

NoAccess == [attr |-> <<>>, out |-> Returns(PyNone), ran |-> FALSE]
NoFirst == [ok |-> FALSE, proc |-> NoProc, reply |-> NoOutcome]

IdleNote ==
    /\ note = NewNote
    /\ noteRemote = NoProc
    /\ noteFetches = 0
    /\ noteAccesses = 0
    /\ noteLast = NoAccess
    /\ noteFirst = NoFirst

NoGetter == <<>>

IdleGetter ==
    /\ pgPc = "idle"
    /\ pgKind = NoGetter
    /\ pgFetches = 0
    /\ pgCreates = 0
    /\ pgFirst = NoOutcome
    /\ pgCreate = NoOutcome
    /\ pgSecond = NoOutcome
    /\ pgOut = NoOutcome

IdlePeriodic == vaultCommands = <<>> /\ IdleGetter

NoArgCall ==
    [op |-> "none", app |-> <<>>, actions |-> <<>>, keywords |-> <<>>, sources |-> <<>>,
     combine |-> <<>>, content |-> PyNone, template |-> PyNone, proc |-> NoProc]

IdleArgs == argCall = NoArgCall /\ argOut = NoOutcome

IdleBase == baseCache = Absent /\ baseRequests = 0 /\ baseOuts = <<>>

NoEdit == [method |-> "none", note |-> NewNote, name |-> <<>>, flag |-> FALSE, proc |-> NoProc]

IdleEdit == editCall = NoEdit /\ editOut = NoOutcome

\* the calls that no specification but their own makes
IdleRest == IdleArgs /\ IdleBase /\ IdleEdit

IdleParse ==
    /\ parsePc = "idle"
    /\ parseIn = PyNone
    /\ parseOut = [kind |-> "none", val |-> PyNone]
    /\ parseAgain = [kind |-> "none", val |-> PyNone]

InitUrl == IdleUrl /\ IdleParse /\ IdleCall /\ IdleQuery /\ IdleNote /\ IdlePeriodic /\ IdleRest

\* build_url(app_name, *actions, **keywords), called directly
CallBuildUrl ==
    /\ urlArgs.via = "none"
    /\ \E app \in Apps, c \in CallArgs :
        /\ urlArgs' = [via |-> "build_url", app |-> app,
                       actions |-> c.actions, keywords |-> c.keywords]
        /\ urlOut' = build_url(app, c.actions, c.keywords)
    /\ UNCHANGED <<parseVars, callVars, queryVars, noteVars, periodicVars, restVars>>

\* vault(*actions, **kwargs): the URL that Vault.__call__ has xcall build
CallVaultUrl ==
    /\ urlArgs.via = "none"
    /\ \E name \in VaultNames, c \in CallArgs :
        /\ urlArgs' = [via |-> "Vault", app |-> name,
                       actions |-> c.actions, keywords |-> c.keywords]
        /\ urlOut' = vault_url(name, c.actions, c.keywords)
    /\ UNCHANGED <<parseVars, callVars, queryVars, noteVars, periodicVars, restVars>>

\* the caller has its URL or its exception; the next call starts afresh
ReturnUrl ==
    /\ urlArgs.via # "none"
    /\ urlArgs' = [via |-> "none", app |-> <<>>, actions |-> <<>>, keywords |-> <<>>]
    /\ urlOut' = Ok(<<>>)
    /\ UNCHANGED <<parseVars, callVars, queryVars, noteVars, periodicVars, restVars>>

NextUrl == CallBuildUrl \/ CallVaultUrl \/ ReturnUrl

SpecUrl == InitUrl /\ [][NextUrl]_vars

(***************************************************************************)
(* The texts given to try_json_parse.  JSON texts are written as the       *)
(* helper writes them (json.dumps without blanks), nested to MaxDepth:     *)
(* a value may be put in an array, alone or with a number after it, in an  *)
(* object, or quoted as a string, which is how the x-callback-url replies  *)
(* carry arrays and objects.                                               *)
(***************************************************************************)
MaxDepth == 3

JEscape(t) ==
    Concat([i \in 1..Len(t) |-> IF t[i] \in {"\"", "\\"} THEN <<"\\", t[i]>> ELSE <<t[i]>>])
JLit(t) == <<"\"">> \o JEscape(t) \o <<"\"">>
JArr(es) == <<"[">> \o Join(<<",">>, es) \o <<"]">>
JObj(kvs) ==
    <<"{">> \o Join(<<",">>, [i \in 1..Len(kvs) |-> JLit(kvs[i][1]) \o <<":">> \o kvs[i][2]])
           \o <<"}">>

RECURSIVE JsonTexts(_)
JsonTexts(d) ==
    IF d = 0 THEN {<<"1">>, <<"[", "1", "]">>, JLit(<<"a">>)}
    ELSE JsonTexts(d - 1)
         \cup {JArr(<<e>>) : e \in JsonTexts(d - 1)}
         \cup {JArr(<<e, <<"1">>>>) : e \in JsonTexts(d - 1)}
         \cup {JObj(<<<<<<"k">>, e>>>>) : e \in JsonTexts(d - 1)}
         \cup {JLit(e) : e \in JsonTexts(d - 1)}

\* texts that are not JSON, or only look like it
OddTexts ==
    {<<>>, <<" ">>, <<"a", "b", "c">>, <<"[", "1">>, <<"[", "a", "]">>, <<"{", "1", "}">>,
     <<"[", "1", ",", "]">>, <<"[", "\"", "[", "a", "]", "\"", "]">>}

ParseInputs ==
    JsonTexts(MaxDepth) \cup {<<" ">> \o t \o <<" ">> : t \in JsonTexts(MaxDepth)} \cup OddTexts

\* try_json_parse(input_string)
Parse ==
    /\ parsePc = "idle"
    /\ \E t \in ParseInputs :
        /\ parseIn' = Str(t)
        /\ parseOut' = try_json_parse(Str(t))
    /\ parsePc' = "parsed"
    /\ UNCHANGED <<parseAgain, urlVars, callVars, queryVars, noteVars, periodicVars, restVars>>

\* try_json_parse(try_json_parse(input_string))
Reparse ==
    /\ parsePc = "parsed"
    /\ parseOut.kind = "ok"
    /\ parseAgain' = try_json_parse(parseOut.val)
    /\ parsePc' = "reparsed"
    /\ UNCHANGED <<parseIn, parseOut, urlVars, callVars, queryVars, noteVars, periodicVars, restVars>>

ReturnParse ==
    /\ parsePc # "idle"
    /\ parsePc' = "idle"
    /\ parseIn' = PyNone
    /\ parseOut' = [kind |-> "none", val |-> PyNone]
    /\ parseAgain' = [kind |-> "none", val |-> PyNone]
    /\ UNCHANGED <<urlVars, callVars, queryVars, noteVars, periodicVars, restVars>>

InitParse == IdleUrl /\ IdleParse /\ IdleCall /\ IdleQuery /\ IdleNote /\ IdlePeriodic /\ IdleRest
NextParse == Parse \/ Reparse \/ ReturnParse
SpecParse == InitParse /\ [][NextParse]_vars

(***************************************************************************)
(* Calls that run the helper process.  Its stdout is a JSON object of at   *)
(* most MaxEntries entries (the x-success parameters) or some other text;  *)
(* its stderr is empty, a JSON error object, or some other text.           *)
(***************************************************************************)
MaxEntries == 2

NotFoundMessage == <<"N", "o", "t", "e", " ", "c", "o", "u", "l", "d", "n", "'", "t", " ", "b", "e", " ", "f", "o", "u", "n", "d">>
ReplyKeys == {ResultPrefix \o <<"a">>, <<"a">>, <<"b">>, ResultPrefix \o ResultPrefix \o <<"a">>}
ReplyValues == {JLit(<<"x">>), <<"1">>, JLit(<<"[", "1", "]">>)}

RECURSIVE ReplyEntries(_)
\* the entry lists of exactly n entries, their keys distinct
ReplyEntries(n) ==
    IF n = 0 THEN {<<>>}
    ELSE UNION {{Append(m, <<k, x>>) : k \in ReplyKeys \ {m[i][1] : i \in 1..Len(m)},
                                       x \in ReplyValues} :
                m \in ReplyEntries(n - 1)}

StdoutTexts ==
    {JObj(m) : m \in UNION {ReplyEntries(n) : n \in 0..MaxEntries}}
    \cup {<<>>, <<"o", "k">>, <<"x">>, <<"[", "1", "]">>, <<"[", "1", ",", "1", "]">>,
          <<"{", "a">>}

StderrTexts ==
    {<<"b", "o", "o", "m">>, <<" ">>,
     JObj(<<<<<<"e", "r", "r", "o", "r", "C", "o", "d", "e">>, <<"4", "0", "4">>>>, <<ErrorMessageKey, JLit(NotFoundMessage)>>>>),
     JObj(<<<<ErrorMessageKey, JLit(<<"O", "o", "p", "s">>)>>>>),
     JObj(<<<<ErrorMessageKey, JLit(<<"[", "1", "]">>)>>>>),
     JObj(<<<<<<"e", "r", "r", "o", "r", "C", "o", "d", "e">>, <<"4", "0", "4">>>>>>),
     JArr(<<JLit(<<"a">>)>>),
     <<"{", "b", "a", "d", "}">>}

Procs ==
    {NoProc}
    \cup {[binary |-> TRUE, stdout |-> o, stderr |-> <<>>] : o \in StdoutTexts}
    \cup {[binary |-> TRUE, stdout |-> o, stderr |-> e] :
            o \in {<<>>, JObj(<<<<<<"a">>, <<"1">>>>>>)}, e \in StderrTexts}

FullUrl == <<"o", ":", "/", "/", "a">>

RawCalls ==
    {[app |-> ObsidianApp, actions |-> <<<<"a">>>>,
      keywords |-> <<Pair(<<"k">>, Str(<<"v", " ", "w">>))>>],
     [app |-> FullUrl, actions |-> <<>>, keywords |-> <<>>],
     [app |-> FullUrl, actions |-> <<<<"a">>>>, keywords |-> <<>>],
     [app |-> ObsidianApp, actions |-> <<>>, keywords |-> <<Pair(<<"k">>, Str(<<"v">>))>>]}

VaultCalls ==
    {[app |-> <<"w">>, actions |-> <<<<"a">>>>, keywords |-> <<>>],
     [app |-> <<"m", "y", " ", "v">>, actions |-> <<<<"a">>, <<"a", " ", "b">>>>,
      keywords |-> <<Pair(<<"k">>, PyNone), Pair(<<"a", "_", "b">>, PyTrue)>>]}

\* xcall_raw(app_name, *actions, **keywords)
CallXcallRaw ==
    /\ callArgs.via = "none"
    /\ \E c \in RawCalls, proc \in Procs :
        /\ callArgs' = [via |-> "xcall_raw", app |-> c.app,
                        actions |-> c.actions, keywords |-> c.keywords]
        /\ callProc' = proc
        /\ rawOut' = xcall_raw(c.app, c.actions, c.keywords, proc)
    /\ UNCHANGED <<replyOut, callOut, urlVars, parseVars, queryVars, noteVars, periodicVars, restVars>>

\* vault(*actions, **kwargs)
CallVault ==
    /\ callArgs.via = "none"
    /\ \E c \in VaultCalls, proc \in Procs :
        /\ callArgs' = [via |-> "Vault", app |-> c.app,
                        actions |-> c.actions, keywords |-> c.keywords]
        /\ callProc' = proc
        /\ rawOut' = xcall_raw(ObsidianApp, <<ActionsUri>> \o c.actions,
                               <<Pair(VaultKey, Str(c.app))>> \o use_kwargs(c.keywords), proc)
        /\ replyOut' = xcall(ObsidianApp, <<ActionsUri>> \o c.actions,
                             <<Pair(VaultKey, Str(c.app))>> \o use_kwargs(c.keywords), proc)
        /\ callOut' = vault_call(c.app, c.actions, c.keywords, proc)
    /\ UNCHANGED <<urlVars, parseVars, queryVars, noteVars, periodicVars, restVars>>

ReturnCall ==
    /\ callArgs.via # "none"
    /\ callArgs' = NoCall
    /\ callProc' = NoProc
    /\ rawOut' = NoOutcome
    /\ replyOut' = NoOutcome
    /\ callOut' = NoOutcome
    /\ UNCHANGED <<urlVars, parseVars, queryVars, noteVars, periodicVars, restVars>>

InitCall == IdleUrl /\ IdleParse /\ IdleCall /\ IdleQuery /\ IdleNote /\ IdlePeriodic /\ IdleRest
NextCall == CallXcallRaw \/ CallVault \/ ReturnCall
SpecCall == InitCall /\ [][NextCall]_vars

(***************************************************************************)
(* Building Dataview queries: one call of Vault.dataview_query, then at    *)
(* most MaxCalls chain calls, each returning the next query.               *)
(***************************************************************************)
MaxCalls == 3

TagA == [t |-> "tag", s |-> <<"a">>]
TagB == [t |-> "tag", s |-> <<"b">>]
\* the sources and the combine word of a request
QueryRequests ==
    {[sources |-> <<>>, combine |-> CombineAnd],
     [sources |-> <<TagA>>, combine |-> CombineAnd],
     [sources |-> <<TagA>>, combine |-> <<"x", "o", "r">>],
     [sources |-> <<TagA, TagB>>, combine |-> <<"x", "o", "r">>],
     [sources |-> <<TagB, [t |-> "outgoing", s |-> <<"n">>]>>, combine |-> CombineOr],
     [sources |-> <<[t |-> "incoming", s |-> <<"n">>], [t |-> "str", s |-> <<"\"", "d", "\"">>]>>,
      combine |-> CombineAnd]}
FieldLists == {PyNone, List(<<>>), List(<<Str(<<"f">>), Str(<<"g">>)>>)}

\* vault.dataview_query(*sources, combine=combine, fields=fields)
NewQuery ==
    /\ dqPc = "none"
    /\ \E request \in QueryRequests, fields \in FieldLists :
        LET made == dataview_query(request.sources, request.combine, fields)
        IN  /\ dqArgs' = [sources |-> request.sources, combine |-> request.combine,
                          fields |-> fields]
            /\ dqErr' = made.err
            /\ dq' = made.query
            /\ dqPc' = IF made.err = "none" THEN "built" ELSE "failed"
    /\ dqCalls' = <<>>
    /\ dqRun' = NoRun
    /\ UNCHANGED <<urlVars, parseVars, callVars, noteVars, periodicVars, restVars>>

Chained(q, op, term) ==
    /\ dqPc = "built"
    /\ Len(dqCalls) < MaxCalls
    /\ dq' = q
    /\ dqCalls' = Append(dqCalls, [op |-> op, term |-> term])
    /\ UNCHANGED <<dqPc, dqErr, dqArgs, dqRun, urlVars, parseVars, callVars, noteVars, periodicVars, restVars>>

\* query.where(clause)
Where == \E clause \in {<<"x">>} : Chained(dq_where(dq, clause), "where", clause)

\* query.sort(field, ascending)
Sort ==
    \E a \in {[field |-> <<"f">>, ascending |-> TRUE], [field |-> <<"g">>, ascending |-> FALSE]} :
        Chained(dq_sort(dq, a.field, a.ascending), "sort", sort_cmd(a.field, a.ascending))

\* query.group_by(field, new_name)
GroupBy ==
    \E new_name \in {Str(<<"n">>)} :
        Chained(dq_group_by(dq, <<"f">>, new_name), "group_by", <<"f">>)

\* query.flatten(field, new_name)
Flatten == \E new_name \in {PyNone} : Chained(dq_flatten(dq, <<"f">>, new_name), "flatten", <<"f">>)

\* query.limit(number)
Limit == \E number \in {<<"1">>} : Chained(dq_limit(dq, number), "limit", number)

QueryVault == <<"v">>

\* the helper's answers: two hits as links, and no hit
QueryReplies ==
    {[binary |-> TRUE, stdout |-> <<"{", "\"", "r", "e", "s", "u", "l", "t", "-", "h", "i", "t", "s", "\"", ":", "\"", "[", "\\", "\"", "[", "[", "a", ".", "m", "d", "|", "a", "]", "]", "\\", "\"", ",", "\\", "\"", "[", "[", "b", "]", "]", "\\", "\"", "]", "\"", "}">>, stderr |-> <<>>],
     [binary |-> TRUE, stdout |-> <<"{", "\"", "r", "e", "s", "u", "l", "t", "-", "h", "i", "t", "s", "\"", ":", "\"", "[", "]", "\"", "}">>, stderr |-> <<>>]}

\* query(): the query is executed
RunQuery ==
    /\ dqPc = "built"
    /\ \E proc \in QueryReplies : dqRun' = dq_call(dq, QueryVault, proc)
    /\ dqPc' = "ran"
    /\ UNCHANGED <<dq, dqErr, dqArgs, dqCalls, urlVars, parseVars, callVars, noteVars, periodicVars, restVars>>

\* the caller lets go of the query (or of the failure)
DropQuery ==
    /\ dqPc # "none"
    /\ dqPc' = "none"
    /\ dq' = NoQuery
    /\ dqErr' = "none"
    /\ dqArgs' = NoQueryArgs
    /\ dqCalls' = <<>>
    /\ dqRun' = NoRun
    /\ UNCHANGED <<urlVars, parseVars, callVars, noteVars, periodicVars, restVars>>

InitQuery == IdleUrl /\ IdleParse /\ IdleCall /\ IdleQuery /\ IdleNote /\ IdlePeriodic /\ IdleRest
NextQuery == NewQuery \/ Where \/ Sort \/ GroupBy \/ Flatten \/ Limit \/ RunQuery \/ DropQuery
SpecQuery == InitQuery /\ [][NextQuery]_vars

(***************************************************************************)
(* One Note object whose data attributes are read, at most MaxAccesses     *)
(* times, while the note changes in the vault.                             *)
(***************************************************************************)
MaxAccesses == 3

NoteVault == <<"v">>
NoteName == note_name(<<"n", ".", "m", "d">>)

\* a note with properties, the same note after an edit
NoteAsWritten ==
    [binary |-> TRUE, stdout |-> <<"{", "\"", "r", "e", "s", "u", "l", "t", "-", "f", "i", "l", "e", "p", "a", "t", "h", "\"", ":", "\"", "n", ".", "m", "d", "\"", ",", "\"", "r", "e", "s", "u", "l", "t", "-", "f", "r", "o", "n", "t", "-", "m", "a", "t", "t", "e", "r", "\"", ":", "\"", "a", "\"", ",", "\"", "r", "e", "s", "u", "l", "t", "-", "c", "o", "n", "t", "e", "n", "t", "\"", ":", "\"", "c", "\"", ",", "\"", "r", "e", "s", "u", "l", "t", "-", "p", "r", "o", "p", "e", "r", "t", "i", "e", "s", "\"", ":", "\"", "{", "\\", "\"", "p", "\\", "\"", ":", "[", "{", "\\", "\"", "x", "\\", "\"", ":", "1", "}", ",", "{", "\\", "\"", "y", "\\", "\"", ":", "2", "}", "]", ",", "\\", "\"", "q", "\\", "\"", ":", "[", "]", "}", "\"", ",", "\"", "r", "e", "s", "u", "l", "t", "-", "b", "o", "d", "y", "\"", ":", "\"", "b", "\"", "}">>, stderr |-> <<>>]
NoteAsEdited ==
    [binary |-> TRUE, stdout |-> <<"{", "\"", "r", "e", "s", "u", "l", "t", "-", "b", "o", "d", "y", "\"", ":", "\"", "d", "\"", ",", "\"", "r", "e", "s", "u", "l", "t", "-", "c", "o", "n", "t", "e", "n", "t", "\"", ":", "\"", "d", "\"", ",", "\"", "r", "e", "s", "u", "l", "t", "-", "f", "i", "l", "e", "p", "a", "t", "h", "\"", ":", "\"", "n", ".", "m", "d", "\"", ",", "\"", "r", "e", "s", "u", "l", "t", "-", "f", "r", "o", "n", "t", "-", "m", "a", "t", "t", "e", "r", "\"", ":", "\"", "\"", ",", "\"", "r", "e", "s", "u", "l", "t", "-", "p", "r", "o", "p", "e", "r", "t", "i", "e", "s", "\"", ":", "\"", "{", "}", "\"", "}">>, stderr |-> <<>>]
\* a reply without properties and body, a reply whose properties are no mapping
NoteCutShort ==
    [binary |-> TRUE, stdout |-> <<"{", "\"", "r", "e", "s", "u", "l", "t", "-", "f", "i", "l", "e", "p", "a", "t", "h", "\"", ":", "\"", "n", ".", "m", "d", "\"", ",", "\"", "r", "e", "s", "u", "l", "t", "-", "f", "r", "o", "n", "t", "-", "m", "a", "t", "t", "e", "r", "\"", ":", "\"", "a", "\"", ",", "\"", "r", "e", "s", "u", "l", "t", "-", "c", "o", "n", "t", "e", "n", "t", "\"", ":", "\"", "c", "\"", "}">>, stderr |-> <<>>]
NoteOddProperties ==
    [binary |-> TRUE, stdout |-> <<"{", "\"", "r", "e", "s", "u", "l", "t", "-", "f", "i", "l", "e", "p", "a", "t", "h", "\"", ":", "\"", "n", ".", "m", "d", "\"", ",", "\"", "r", "e", "s", "u", "l", "t", "-", "f", "r", "o", "n", "t", "-", "m", "a", "t", "t", "e", "r", "\"", ":", "\"", "a", "\"", ",", "\"", "r", "e", "s", "u", "l", "t", "-", "c", "o", "n", "t", "e", "n", "t", "\"", ":", "\"", "c", "\"", ",", "\"", "r", "e", "s", "u", "l", "t", "-", "p", "r", "o", "p", "e", "r", "t", "i", "e", "s", "\"", ":", "\"", "x", "\"", ",", "\"", "r", "e", "s", "u", "l", "t", "-", "b", "o", "d", "y", "\"", ":", "\"", "b", "\"", "}">>, stderr |-> <<>>]
NoteMissing ==
    [binary |-> TRUE, stdout |-> <<>>, stderr |-> <<"{", "\"", "e", "r", "r", "o", "r", "C", "o", "d", "e", "\"", ":", "4", "0", "4", ",", "\"", "e", "r", "r", "o", "r", "M", "e", "s", "s", "a", "g", "e", "\"", ":", "\"", "N", "o", "t", "e", " ", "c", "o", "u", "l", "d", "n", "'", "t", " ", "b", "e", " ", "f", "o", "u", "n", "d", "\"", "}">>]
NoteReplies ==
    {NoteAsWritten, NoteAsEdited, NoteCutShort, NoteOddProperties, NoteMissing,
     [binary |-> TRUE, stdout |-> <<"o", "k">>, stderr |-> <<>>]}

\* reading one data attribute of the Note
Access(attr) ==
    /\ noteRemote # NoProc
    /\ noteAccesses < MaxAccesses
    /\ \E got \in {note_attribute(note, attr, NoteVault, NoteName, noteRemote)} :
        /\ note' = got.note
        /\ noteFetches' = noteFetches + (IF got.ran THEN 1 ELSE 0)
        /\ noteLast' = [attr |-> attr, out |-> got.out, ran |-> got.ran]
        /\ noteFirst' = IF noteAccesses > 0 THEN noteFirst
                        ELSE [ok |-> got.out.kind = "ok", proc |-> noteRemote,
                              reply |-> vault_call(NoteVault, NoteAction,
                                                   <<Pair(FileKey, Str(NoteName))>>, noteRemote)]
    /\ noteAccesses' = noteAccesses + 1
    /\ UNCHANGED <<noteRemote, urlVars, parseVars, callVars, queryVars, periodicVars, restVars>>

PathInternal == Access(FilepathAttr)
Content == Access(ContentAttr)
Body == Access(BodyAttr)
FrontMatter == Access(FrontMatterAttr)
Properties == Access(PropertiesAttr)

\* the note is written, edited or removed in the vault
RemoteChanges ==
    /\ \E proc \in NoteReplies \ {noteRemote} : noteRemote' = proc
    /\ UNCHANGED <<note, noteFetches, noteAccesses, noteLast, noteFirst,
                   urlVars, parseVars, callVars, queryVars, periodicVars, restVars>>

InitNote == IdleUrl /\ IdleParse /\ IdleCall /\ IdleQuery /\ IdleNote /\ IdlePeriodic /\ IdleRest
NextNote == PathInternal \/ Content \/ Body \/ FrontMatter \/ Properties \/ RemoteChanges
SpecNote == InitNote /\ [][NextNote]_vars

(***************************************************************************)
(* The periodic-note getters, step by step: the first fetch, the creation  *)
(* command, the second fetch.  The helper process answers each request as  *)
(* the vault stands at that moment.                                        *)
(***************************************************************************)
CommandLists ==
    {<<>>,
     <<<<"a", "p", "p", ":", "r", "e", "l", "o", "a", "d">>, <<"d", "a", "i", "l", "y", "-", "n", "o", "t", "e", "s">>>>,
     <<<<"d", "a", "i", "l", "y", "-", "n", "o", "t", "e", "s">>, <<"p", "e", "r", "i", "o", "d", "i", "c", "-", "n", "o", "t", "e", "s", ":", "o", "p", "e", "n", "-", "w", "e", "e", "k", "l", "y", "-", "n", "o", "t", "e">>, <<"p", "e", "r", "i", "o", "d", "i", "c", "-", "n", "o", "t", "e", "s", ":", "o", "p", "e", "n", "-", "m", "o", "n", "t", "h", "l", "y", "-", "n", "o", "t", "e">>,
       <<"p", "e", "r", "i", "o", "d", "i", "c", "-", "n", "o", "t", "e", "s", ":", "o", "p", "e", "n", "-", "q", "u", "a", "r", "t", "e", "r", "l", "y", "-", "n", "o", "t", "e">>, <<"p", "e", "r", "i", "o", "d", "i", "c", "-", "n", "o", "t", "e", "s", ":", "o", "p", "e", "n", "-", "y", "e", "a", "r", "l", "y", "-", "n", "o", "t", "e">>>>}

FetchReplies ==
    {NoProc,
     [binary |-> TRUE, stdout |-> <<"{", "\"", "r", "e", "s", "u", "l", "t", "-", "f", "i", "l", "e", "p", "a", "t", "h", "\"", ":", "\"", "d", ".", "m", "d", "\"", ",", "\"", "r", "e", "s", "u", "l", "t", "-", "c", "o", "n", "t", "e", "n", "t", "\"", ":", "\"", "c", "\"", "}">>, stderr |-> <<>>],
     [binary |-> TRUE, stdout |-> <<"{", "\"", "r", "e", "s", "u", "l", "t", "-", "f", "i", "l", "e", "p", "a", "t", "h", "\"", ":", "\"", "d", ".", "m", "d", "\"", "}">>, stderr |-> <<>>],
     [binary |-> TRUE, stdout |-> <<"{", "\"", "r", "e", "s", "u", "l", "t", "-", "a", "\"", ":", "\"", "1", "\"", ",", "\"", "r", "e", "s", "u", "l", "t", "-", "b", "\"", ":", "\"", "2", "\"", "}">>, stderr |-> <<>>],
     [binary |-> TRUE, stdout |-> <<>>, stderr |-> <<"{", "\"", "e", "r", "r", "o", "r", "C", "o", "d", "e", "\"", ":", "4", "0", "4", ",", "\"", "e", "r", "r", "o", "r", "M", "e", "s", "s", "a", "g", "e", "\"", ":", "\"", "N", "o", "t", "e", " ", "c", "o", "u", "l", "d", "n", "'", "t", " ", "b", "e", " ", "f", "o", "u", "n", "d", "\"", "}">>],
     [binary |-> TRUE, stdout |-> <<>>, stderr |-> <<"{", "\"", "e", "r", "r", "o", "r", "C", "o", "d", "e", "\"", ":", "5", "0", "0", ",", "\"", "e", "r", "r", "o", "r", "M", "e", "s", "s", "a", "g", "e", "\"", ":", "\"", "O", "o", "p", "s", "\"", "}">>],
     [binary |-> TRUE, stdout |-> <<>>, stderr |-> <<"N", "o", "t", "e", " ", "c", "o", "u", "l", "d", "n", "'", "t", " ", "b", "e", " ", "f", "o", "u", "n", "d">>]}

CommandReplies ==
    {NoProc,
     [binary |-> TRUE, stdout |-> <<"{", "}">>, stderr |-> <<>>],
     [binary |-> TRUE, stdout |-> <<>>, stderr |-> <<>>],
     [binary |-> TRUE, stdout |-> <<>>, stderr |-> <<"{", "\"", "e", "r", "r", "o", "r", "C", "o", "d", "e", "\"", ":", "5", "0", "0", ",", "\"", "e", "r", "r", "o", "r", "M", "e", "s", "s", "a", "g", "e", "\"", ":", "\"", "O", "o", "p", "s", "\"", "}">>]}

\* vault.daily_note(), vault.weekly_note(), ... is called
StartGetter ==
    /\ pgPc = "idle"
    /\ \E period \in Periods : pgKind' = period
    /\ pgPc' = "fetch1"
    /\ UNCHANGED <<pgFetches, pgCreates, pgFirst, pgCreate, pgSecond, pgOut, vaultCommands,
                   urlVars, parseVars, callVars, queryVars, noteVars, restVars>>

\* the try block: the first get-current fetch
Fetch1 ==
    /\ pgPc = "fetch1"
    /\ \E proc \in FetchReplies :
        \E got \in {fetch_current(NoteVault, pgKind, proc)} :
            /\ pgFirst' = got
            /\ IF got.kind = "ok" THEN pgPc' = "done" /\ pgOut' = new_note(got.val)
               ELSE IF not_found(got) THEN pgPc' = "create" /\ pgOut' = pgOut
               ELSE pgPc' = "done" /\ pgOut' = got
    /\ pgFetches' = pgFetches + 1
    /\ UNCHANGED <<pgKind, pgCreates, pgCreate, pgSecond, vaultCommands,
                   urlVars, parseVars, callVars, queryVars, noteVars, restVars>>

\* the except block: self.commands.<creation command>()
Create ==
    /\ pgPc = "create"
    /\ \E command \in {commands_getattr(vaultCommands, creation_attribute(pgKind))} :
        IF command.kind # "ok"
        THEN /\ pgPc' = "done"
             /\ pgOut' = Outcome(command.kind, PyNone, FALSE)
             /\ UNCHANGED <<pgCreates, pgCreate>>
        ELSE \E proc \in CommandReplies :
                \E got \in {command_call(NoteVault, command.val.s, proc)} :
                    /\ pgCreates' = pgCreates + 1
                    /\ pgCreate' = got
                    /\ IF got.kind = "ok" THEN pgPc' = "fetch2" /\ pgOut' = pgOut
                       ELSE pgPc' = "done" /\ pgOut' = got
    /\ UNCHANGED <<pgKind, pgFetches, pgFirst, pgSecond, vaultCommands,
                   urlVars, parseVars, callVars, queryVars, noteVars, restVars>>

\* the except block: the second get-current fetch
Fetch2 ==
    /\ pgPc = "fetch2"
    /\ \E proc \in FetchReplies :
        \E got \in {fetch_current(NoteVault, pgKind, proc)} :
            /\ pgSecond' = got
            /\ pgOut' = IF got.kind = "ok" THEN new_note(got.val) ELSE got
    /\ pgFetches' = pgFetches + 1
    /\ pgPc' = "done"
    /\ UNCHANGED <<pgKind, pgCreates, pgFirst, pgCreate, vaultCommands,
                   urlVars, parseVars, callVars, queryVars, noteVars, restVars>>

\* the caller has its Note or its exception
ReturnGetter ==
    /\ pgPc = "done"
    /\ pgPc' = "idle"
    /\ pgKind' = NoGetter
    /\ pgFetches' = 0
    /\ pgCreates' = 0
    /\ pgFirst' = NoOutcome
    /\ pgCreate' = NoOutcome
    /\ pgSecond' = NoOutcome
    /\ pgOut' = NoOutcome
    /\ UNCHANGED <<vaultCommands, urlVars, parseVars, callVars, queryVars, noteVars, restVars>>

InitPeriodic ==
    /\ IdleUrl /\ IdleParse /\ IdleCall /\ IdleQuery /\ IdleNote /\ IdleGetter /\ IdleRest
    /\ vaultCommands \in CommandLists
NextPeriodic == StartGetter \/ Fetch1 \/ Create \/ Fetch2 \/ ReturnGetter
SpecPeriodic == InitPeriodic /\ [][NextPeriodic]_vars

(***************************************************************************)
(* Calls whose arguments are checked before anything else is done:         *)
(* build_url, xcall, xcall_raw, Vault.note_create, Vault.dataview_query.   *)
(* The helper binary is missing, or it is there and answers.               *)
(***************************************************************************)
ArgApps == {ObsidianApp, FullUrl}

ArgLists ==
    {[actions |-> <<>>, keywords |-> <<>>],
     [actions |-> <<>>, keywords |-> <<Pair(<<"k">>, Str(<<"v">>))>>],
     [actions |-> <<>>, keywords |-> <<Pair(<<"k">>, Str(<<"v">>)), Pair(<<"a", "_", "b">>, PyTrue)>>],
     [actions |-> <<<<"a">>>>, keywords |-> <<>>],
     [actions |-> <<<<"a">>, <<"a", " ", "b">>>>, keywords |-> <<Pair(<<"k">>, Str(<<"v">>))>>]}

ArgProcs ==
    {NoProc,
     [binary |-> TRUE, stdout |-> JObj(<<<<<<"a">>, <<"1">>>>>>), stderr |-> <<>>],
     [binary |-> TRUE, stdout |-> <<>>, stderr |-> JObj(<<<<ErrorMessageKey, JLit(<<"O", "o", "p", "s">>)>>>>)]}

ArgTexts == {PyNone, Str(<<"c">>)}

\* build_url(app_name, *actions, **keywords)
ArgBuildUrl ==
    /\ argCall.op = "none"
    /\ \E app \in ArgApps, c \in ArgLists :
        /\ argCall' = [NoArgCall EXCEPT !.op = "build_url", !.app = app,
                                        !.actions = c.actions, !.keywords = c.keywords]
        /\ argOut' = Only({Outcome(built.kind, Str(built.url), FALSE) :
                           built \in {build_url(app, c.actions, c.keywords)}})
    /\ UNCHANGED <<urlVars, parseVars, callVars, queryVars, noteVars, periodicVars, baseVars,
                   editVars>>

\* xcall(app_name, *actions, **keywords)
ArgXcall ==
    /\ argCall.op = "none"
    /\ \E app \in ArgApps, c \in ArgLists, proc \in ArgProcs :
        /\ argCall' = [NoArgCall EXCEPT !.op = "xcall", !.app = app, !.actions = c.actions,
                                        !.keywords = c.keywords, !.proc = proc]
        /\ argOut' = xcall(app, c.actions, c.keywords, proc)
    /\ UNCHANGED <<urlVars, parseVars, callVars, queryVars, noteVars, periodicVars, baseVars,
                   editVars>>

\* xcall_raw(app_name, *actions, **keywords)
ArgXcallRaw ==
    /\ argCall.op = "none"
    /\ \E app \in ArgApps, c \in ArgLists, proc \in ArgProcs :
        /\ argCall' = [NoArgCall EXCEPT !.op = "xcall_raw", !.app = app, !.actions = c.actions,
                                        !.keywords = c.keywords, !.proc = proc]
        /\ argOut' = xcall_raw(app, c.actions, c.keywords, proc)
    /\ UNCHANGED <<urlVars, parseVars, callVars, queryVars, noteVars, periodicVars, baseVars,
                   editVars>>

\* vault.note_create(filename, content, template, overwrite, silent)
ArgNoteCreate ==
    /\ argCall.op = "none"
    /\ \E content \in ArgTexts, template \in ArgTexts, overwrite \in BOOLEAN, silent \in BOOLEAN,
          proc \in ArgProcs :
        /\ argCall' = [NoArgCall EXCEPT !.op = "note_create", !.app = QueryVault,
                                        !.actions = <<<<"n", ".", "m", "d">>>>,
                                        !.keywords = <<Pair(<<"o", "v", "e", "r", "w", "r", "i", "t", "e">>, IF overwrite THEN PyTrue ELSE PyFalse),
                                                       Pair(SilentKey, IF silent THEN PyTrue ELSE PyFalse)>>,
                                        !.content = content, !.template = template,
                                        !.proc = proc]
        /\ argOut' = note_create(QueryVault, <<"n", ".", "m", "d">>, content, template,
                                 overwrite, silent, proc)
    /\ UNCHANGED <<urlVars, parseVars, callVars, queryVars, noteVars, periodicVars, baseVars,
                   editVars>>

\* vault.dataview_query(*sources, combine=combine, fields=fields)
ArgDataviewQuery ==
    /\ argCall.op = "none"
    /\ \E request \in QueryRequests, fields \in FieldLists :
        /\ argCall' = [NoArgCall EXCEPT !.op = "dataview_query", !.sources = request.sources,
                                        !.combine = request.combine, !.keywords = <<Pair(<<"f", "i", "e", "l", "d", "s">>, fields)>>]
        /\ argOut' = Only({IF made.err = "none" THEN Outcome("ok", made.query, FALSE)
                           ELSE Outcome(made.err, PyNone, FALSE) :
                           made \in {dataview_query(request.sources, request.combine, fields)}})
    /\ UNCHANGED <<urlVars, parseVars, callVars, queryVars, noteVars, periodicVars, baseVars,
                   editVars>>

\* the caller has its value or its exception
ArgReturn ==
    /\ argCall.op # "none"
    /\ argCall' = NoArgCall
    /\ argOut' = NoOutcome
    /\ UNCHANGED <<urlVars, parseVars, callVars, queryVars, noteVars, periodicVars, baseVars,
                   editVars>>

InitArgs == IdleUrl /\ IdleParse /\ IdleCall /\ IdleQuery /\ IdleNote /\ IdlePeriodic /\ IdleRest
NextArgs ==
    ArgBuildUrl \/ ArgXcall \/ ArgXcallRaw \/ ArgNoteCreate \/ ArgDataviewQuery \/ ArgReturn
SpecArgs == InitArgs /\ [][NextArgs]_vars

(***************************************************************************)
(* One Vault object whose base_path is read up to MaxAccesses times.  The  *)
(* info request is answered with the plugin's reply (the base path among   *)
(* other entries), with a reply of the base path alone, with a reply whose *)
(* key carries the prefix twice, with an error, or the helper is missing.  *)
(***************************************************************************)
BasePathText == <<"/", "p">>
InfoReply ==
    [binary |-> TRUE, stderr |-> <<>>,
     stdout |-> JObj(<<<<BasePathKey, JLit(BasePathText)>>, <<ResultPrefix \o <<"o", "s">>, JLit(<<"m", "a", "c">>)>>>>)]
InfoReplyAlone ==
    [binary |-> TRUE, stderr |-> <<>>, stdout |-> JObj(<<<<BasePathKey, JLit(BasePathText)>>>>)]
InfoReplies ==
    {InfoReply, InfoReplyAlone, NoProc,
     [binary |-> TRUE, stderr |-> <<>>,
      stdout |-> JObj(<<<<ResultPrefix \o BasePathKey, JLit(<<"/", "q">>)>>, <<ResultPrefix \o <<"o", "s">>, JLit(<<"m", "a", "c">>)>>>>)],
     [binary |-> TRUE, stdout |-> <<>>, stderr |-> JObj(<<<<ErrorMessageKey, JLit(<<"O", "o", "p", "s">>)>>>>)]}

\* vault.base_path
AccessBasePath ==
    /\ Len(baseOuts) < MaxAccesses
    /\ \E proc \in InfoReplies :
        LET got == base_path(baseCache, QueryVault, proc)
        IN  /\ baseCache' = got.cache
            /\ baseRequests' = baseRequests + (IF got.out.ran THEN 1 ELSE 0)
            /\ baseOuts' = Append(baseOuts, [reply |-> proc, out |-> got.out])
    /\ UNCHANGED <<urlVars, parseVars, callVars, queryVars, noteVars, periodicVars, argVars,
                   editVars>>

\* the Vault object is let go of and another one is made
NewVault ==
    /\ baseOuts # <<>>
    /\ baseCache' = Absent
    /\ baseRequests' = 0
    /\ baseOuts' = <<>>
    /\ UNCHANGED <<urlVars, parseVars, callVars, queryVars, noteVars, periodicVars, argVars,
                   editVars>>

InitBase == IdleUrl /\ IdleParse /\ IdleCall /\ IdleQuery /\ IdleNote /\ IdlePeriodic /\ IdleRest
NextBase == AccessBasePath \/ NewVault
SpecBase == InitBase /\ [][NextBase]_vars

(***************************************************************************)
(* The methods of a Note that act on the remote note.  The Note is new, or *)
(* its attributes have been loaded; the remote note exists, and the helper *)
(* answers every request about it, or refuses it, or is missing.           *)
(***************************************************************************)
EditNames == {<<"n">>, <<"n", ".", "m", "d">>, <<"d", "/", "n", ".", "m", "d">>}
EditMethods ==
    {[method |-> m, flag |-> f] : m \in {"append", "prepend", "replace", "delete"}, f \in BOOLEAN}
    \cup {[method |-> "open", flag |-> FALSE]}
EditAnswers == {NoteAsWritten, NoteMissing, NoProc}
\* the Note objects: one just made, one whose attributes were loaded
EditNotes(name) == {NewNote, load_attributes(NewNote, NoteVault, note_name(name), NoteAsWritten).note}

EditNote ==
    /\ editCall.method = "none"
    /\ \E name \in EditNames, c \in EditMethods, proc \in EditAnswers :
        \E obj \in EditNotes(name) :
            /\ editCall' = [method |-> c.method, note |-> obj, name |-> note_name(name),
                            flag |-> c.flag, proc |-> proc]
            /\ editOut' = note_edit(obj, NoteVault, note_name(name), c.method, c.flag, proc)
    /\ UNCHANGED <<urlVars, parseVars, callVars, queryVars, noteVars, periodicVars, argVars,
                   baseVars>>

ReturnEdit ==
    /\ editCall.method # "none"
    /\ editCall' = NoEdit
    /\ editOut' = NoOutcome
    /\ UNCHANGED <<urlVars, parseVars, callVars, queryVars, noteVars, periodicVars, argVars,
                   baseVars>>

InitEdit == IdleUrl /\ IdleParse /\ IdleCall /\ IdleQuery /\ IdleNote /\ IdlePeriodic /\ IdleRest
NextEdit == EditNote \/ ReturnEdit
SpecEdit == InitEdit /\ [][NextEdit]_vars

(***************************************************************************)
(* Reading a URL back: split at "://", "?", "/", "&" and the first "=" of  *)
(* a piece, and percent-decode each piece.                                 *)
(***************************************************************************)
\* the first index at which p occurs in s, or 0
IndexOf(s, p) ==
    IF Contains(s, p)
    THEN CHOOSE i \in 1..Len(s) :
            /\ SubSeq(s, i, i + Len(p) - 1) = p
            /\ \A j \in 1..(i - 1) : SubSeq(s, j, j + Len(p) - 1) # p
    ELSE 0

RECURSIVE SplitOn(_, _)
\* s.split(c) for a one-character c
SplitOn(s, c) ==
    LET i == IndexOf(s, <<c>>)
    IN  IF i = 0 THEN <<s>>
        ELSE <<SubSeq(s, 1, i - 1)>> \o SplitOn(SubSeq(s, i + 1, Len(s)), c)

CharOfCode(h) ==
    IF h = <<"2", "F">> THEN "/"
    ELSE CHOOSE c \in DOMAIN HexCode : HexCode[c] = h

IsCode(h) == h = <<"2", "F">> \/ \E c \in DOMAIN HexCode : HexCode[c] = h

RECURSIVE Unquote(_)
Unquote(s) ==
    IF s = <<>> THEN <<>>
    ELSE IF s[1] = "%" /\ Len(s) >= 3 /\ IsCode(SubSeq(s, 2, 3))
         THEN <<CharOfCode(SubSeq(s, 2, 3))>> \o Unquote(SubSeq(s, 4, Len(s)))
         ELSE <<s[1]>> \o Unquote(Tail(s))

UrlRest(url) ==
    LET i == IndexOf(url, <<":", "/", "/">>)
    IN  IF i = 0 THEN <<>> ELSE SubSeq(url, i + 3, Len(url))

UrlScheme(url) ==
    LET i == IndexOf(url, <<":", "/", "/">>)
    IN  IF i = 0 THEN url ELSE SubSeq(url, 1, i - 1)

UrlPath(url) ==
    LET r == UrlRest(url)
        q == IndexOf(r, <<"?">>)
    IN  IF q = 0 THEN r ELSE SubSeq(r, 1, q - 1)

UrlQuery(url) ==
    LET r == UrlRest(url)
        q == IndexOf(r, <<"?">>)
    IN  IF q = 0 THEN <<>> ELSE SubSeq(r, q + 1, Len(r))

\* the decoded path segments
UrlSegments(url) ==
    LET parts == SplitOn(UrlPath(url), "/")
    IN  IF IndexOf(url, <<":", "/", "/">>) = 0 THEN <<>>
        ELSE [i \in 1..Len(parts) |-> Unquote(parts[i])]

\* the undecoded key=value pieces of the query
UrlPieces(url) == IF UrlQuery(url) = <<>> THEN <<>> ELSE SplitOn(UrlQuery(url), "&")

PieceKey(piece) ==
    LET e == IndexOf(piece, <<"=">>)
    IN  IF e = 0 THEN piece ELSE SubSeq(piece, 1, e - 1)

PieceValue(piece) ==
    LET e == IndexOf(piece, <<"=">>)
    IN  IF e = 0 THEN <<>> ELSE SubSeq(piece, e + 1, Len(piece))

\* the decoded <<key, value>> pairs of the query
UrlPairs(url) ==
    LET pieces == UrlPieces(url)
    IN  [i \in 1..Len(pieces) |->
            <<Unquote(PieceKey(pieces[i])), Unquote(PieceValue(pieces[i]))>>]

\* a key with every "-" spelled "_": two keys that differ only in that spelling
SameSpelling(k) == ReplaceChar(k, "-", "_")

\* the text of a keyword value on the wire: true / false for a bool
WireText(x) ==
    IF x = PyTrue THEN <<"t", "r", "u", "e">>
    ELSE IF x = PyFalse THEN <<"f", "a", "l", "s", "e">>
    ELSE x.s

NonNull(keywords) == SelectSeq(keywords, LAMBDA p : ValOf(p) # PyNone)
HasNull(keywords) == \E i \in 1..Len(keywords) : ValOf(keywords[i]) = PyNone

\* the entries the URL is to hold, for a direct call and for a call through a Vault
SentKeywords ==
    IF urlArgs.via = "Vault"
    THEN <<Pair(VaultKey, Str(urlArgs.app))>> \o NonNull(urlArgs.keywords)
    ELSE NonNull(urlArgs.keywords)

\* the query holds exactly the entries of kws, in order, keys up to "-"/"_" spelling
QueryHolds(url, kws) ==
    /\ Len(UrlPairs(url)) = Len(kws)
    /\ \A i \in 1..Len(kws) :
        /\ SameSpelling(UrlPairs(url)[i][1]) = SameSpelling(KeyOf(kws[i]))
        /\ UrlPairs(url)[i][2] = WireText(ValOf(kws[i]))

(***************************************************************************)
(* C4: in the URL build_url returns, every keyword key has its underscores *)
(* turned into hyphens, and a boolean value reads true or false.           *)
(* (The claim as stated; update_key turns hyphens into underscores.)       *)
(***************************************************************************)
C4_KeysHyphenated ==
    (urlArgs.via = "build_url" /\ urlOut.kind = "ok") =>
        /\ Len(UrlPieces(urlOut.url)) = Len(urlArgs.keywords)
        /\ \A i \in 1..Len(urlArgs.keywords) :
            LET p == urlArgs.keywords[i]
            IN  /\ PieceKey(UrlPieces(urlOut.url)[i]) = ReplaceChar(KeyOf(p), "_", "-")
                /\ ValOf(p).t = "bool" =>
                      PieceValue(UrlPieces(urlOut.url)[i]) = WireText(ValOf(p))

(***************************************************************************)
(* C5, as stated: whenever the keyword mapping holds a None entry, a URL   *)
(* is built that holds every other entry and not that one, through         *)
(* Vault.__call__ and through build_url alike.                             *)
(***************************************************************************)
C5_NullDroppedEverywhere ==
    (urlArgs.via # "none" /\ HasNull(urlArgs.keywords) /\ Len(urlArgs.actions) > 0) =>
        /\ urlOut.kind = "ok"
        /\ QueryHolds(urlOut.url, SentKeywords)

(***************************************************************************)
(* C5, amended: through Vault.__call__ the URL holds vault=<name> and then *)
(* exactly the entries whose value is not None, in order; build_url called *)
(* directly with a None entry raises TypeError and builds no URL.          *)
(***************************************************************************)
C5_NullDroppedByVault ==
    /\ (urlArgs.via = "Vault" /\ HasNull(urlArgs.keywords)) =>
          /\ urlOut.kind = "ok"
          /\ QueryHolds(urlOut.url, SentKeywords)
    /\ (urlArgs.via = "build_url" /\ HasNull(urlArgs.keywords) /\ Len(urlArgs.actions) > 0) =>
          urlOut = Raise("TypeError")

C5_Witness ==
    /\ urlArgs.via = "Vault"
    /\ HasNull(urlArgs.keywords)
    /\ Len(NonNull(urlArgs.keywords)) > 0
    /\ urlOut.kind = "ok"
    /\ Len(UrlPairs(urlOut.url)) = Len(urlArgs.keywords)

(***************************************************************************)
(* C6, as stated: for a non-empty segment list and string values, reading  *)
(* the URL back recovers exactly the segments and exactly the key/value    *)
(* pairs.                                                                  *)
(***************************************************************************)
AllStrings(keywords) == \A i \in 1..Len(keywords) : ValOf(keywords[i]).t = "str"

RoundTripCall ==
    /\ urlArgs.via = "build_url"
    /\ Len(urlArgs.actions) > 0
    /\ AllStrings(urlArgs.keywords)

JsonLooking(x) == x.t = "str" /\ (LooksLikeArray(x.s) \/ LooksLikeObject(x.s))

RECURSIVE HoldsJsonLooking(_)
HoldsJsonLooking(x) ==
    \/ JsonLooking(x)
    \/ \E i \in 1..Len(x.v) : HoldsJsonLooking(x.v[i])

\* the elements of an array, the values of an object
Children(x) == [i \in 1..Len(x.v) |-> IF x.v[i].t = "pair" THEN ValOf(x.v[i]) ELSE x.v[i]]

Idempotent == parsePc = "reparsed" => parseAgain = parseOut

C8_ClosedAtEveryDepth ==
    /\ Idempotent
    /\ (parsePc # "idle" /\ parseOut.kind = "ok") => ~HoldsJsonLooking(parseOut.val)

(***************************************************************************)
(* C8, amended: try_json_parse is idempotent; its result is never itself a *)
(* JSON-looking string, and no element of the array / value of the object  *)
(* it returns is one.  (Elements are parsed only where they are strings: a *)
(* JSON-looking string inside an array or object that json.loads already   *)
(* decoded as nested stays a string.)                                      *)
(***************************************************************************)
C8_ClosedOneLevel ==
    /\ Idempotent
    /\ (parsePc # "idle" /\ parseOut.kind = "ok") =>
          /\ ~JsonLooking(parseOut.val)
          /\ \A i \in 1..Len(parseOut.val.v) : ~JsonLooking(Children(parseOut.val)[i])

C8_Witness ==
    /\ parsePc = "reparsed"
    /\ parseOut.kind = "ok"
    /\ parseOut.val.t = "list"
    /\ \E i \in 1..Len(parseOut.val.v) :
          /\ JsonLooking(json_loads(parseIn.s).val.v[i])
          /\ parseOut.val.v[i].t \in {"list", "dict"}

(***************************************************************************)
(* C7, as stated: non-empty stderr makes xcall_raw raise ChildProcessError *)
(* carrying the errorMessage field of a JSON stderr, or the raw stderr     *)
(* text when stderr is not JSON; empty stderr makes it return stdout.      *)
(* (Fails: on a stderr that is not a JSON object the subscript             *)
(* err['errorMessage'] raises TypeError.)                                  *)
(***************************************************************************)
\* what the failure is to carry for a given stderr
CarriedText(stderr) ==
    LET p == json_loads(stderr)
    IN  IF ~p.ok THEN stderr
        ELSE IF p.val.t = "dict" /\ DictHas(p.val, ErrorMessageKey)
                /\ DictGet(p.val, ErrorMessageKey).t = "str"
             THEN DictGet(p.val, ErrorMessageKey).s
        ELSE <<>>

C7_StderrRaisesRemoteFailure ==
    (callArgs.via # "none" /\ rawOut.ran) =>
        IF callProc.stderr # <<>>
        THEN /\ rawOut.kind = "ChildProcessError"
             /\ Contains(rawOut.val.s, CarriedText(callProc.stderr))
        ELSE rawOut = Outcome("ok", Str(callProc.stdout), TRUE)

(***************************************************************************)
(* C3, as stated: a reply mapping of one entry is returned as that entry's *)
(* value; any other reply mapping is returned entry for entry, the same    *)
(* values under the keys without their leading "result-".                  *)
(***************************************************************************)
ReplyIsMapping == callArgs.via = "Vault" /\ replyOut.kind = "ok" /\ replyOut.val.t = "dict"
Stripped(k) == RemovePrefix(k, ResultPrefix)
Unwrapped ==
    Len(replyOut.val.v) = 1 => callOut = Outcome("ok", ValOf(replyOut.val.v[1]), TRUE)

C3_EntryForEntry ==
    ReplyIsMapping =>
        /\ Unwrapped
        /\ Len(replyOut.val.v) # 1 =>
              /\ callOut.kind = "ok" /\ callOut.val.t = "dict"
              /\ Len(callOut.val.v) = Len(replyOut.val.v)
              /\ \A i \in 1..Len(replyOut.val.v) :
                    /\ KeyOf(callOut.val.v[i]) = Stripped(KeyOf(replyOut.val.v[i]))
                    /\ ValOf(callOut.val.v[i]) = ValOf(replyOut.val.v[i])

(***************************************************************************)
(* C3, amended: a reply mapping of one entry is returned as that entry's   *)
(* value; any other reply mapping is returned as a mapping whose keys are  *)
(* the reply's keys with one leading "result-" removed, each holding the   *)
(* value of the last reply entry that has that key once stripped: entry    *)
(* for entry when no two stripped keys are equal, and with the earlier     *)
(* value dropped when two are (result-a and a).                            *)
(***************************************************************************)
NoCollision(entries) ==
    \A i, j \in 1..Len(entries) :
        Stripped(KeyOf(entries[i])) = Stripped(KeyOf(entries[j])) => i = j

LastWith(entries, k) ==
    CHOOSE i \in 1..Len(entries) :
        /\ Stripped(KeyOf(entries[i])) = k
        /\ \A j \in (i + 1)..Len(entries) : Stripped(KeyOf(entries[j])) # k

C3_StrippedMapping ==
    ReplyIsMapping =>
        /\ Unwrapped
        /\ Len(replyOut.val.v) # 1 =>
              LET in == replyOut.val.v
                  out == callOut.val.v
              IN  /\ callOut.kind = "ok" /\ callOut.val.t = "dict"
                  /\ {KeyOf(out[i]) : i \in 1..Len(out)} = {Stripped(KeyOf(in[i])) : i \in 1..Len(in)}
                  /\ \A i, j \in 1..Len(out) : KeyOf(out[i]) = KeyOf(out[j]) => i = j
                  /\ \A i \in 1..Len(out) : ValOf(out[i]) = ValOf(in[LastWith(in, KeyOf(out[i]))])
                  /\ NoCollision(in) =>
                        /\ Len(out) = Len(in)
                        /\ \A i \in 1..Len(in) :
                              /\ KeyOf(out[i]) = Stripped(KeyOf(in[i]))
                              /\ ValOf(out[i]) = ValOf(in[i])

C3_Witness ==
    /\ ReplyIsMapping
    /\ Len(replyOut.val.v) = 2
    /\ KeyOf(replyOut.val.v[1]) = ResultPrefix \o <<"a">>
    /\ KeyOf(replyOut.val.v[2]) = <<"b">>
    /\ callOut = Outcome("ok", Dict(<<Pair(<<"a">>, Str(<<"x">>)),
                                      Pair(<<"b">>, List(<<Num(<<"1">>)>>))>>), TRUE)


(***************************************************************************)
(* Dataview queries: what a query built by a chain of calls holds.         *)
(***************************************************************************)
IsSortClause(statement) == StartsWith(statement, SortWord)
SortClauses(q) == SelectSeq(q.statements, IsSortClause)
IsSortCall(call) == call.op = "sort"
SortTerms(calls) == [i \in 1..Len(SelectSeq(calls, IsSortCall)) |-> SelectSeq(calls, IsSortCall)[i].term]

RECURSIVE SortRuns(_)
\* the terms of each maximal run of consecutive sort calls
SortRuns(calls) ==
    IF calls = <<>> THEN <<>>
    ELSE LET rest == SortRuns(Tail(calls))
         IN  IF Head(calls).op # "sort" THEN rest
             ELSE IF Len(calls) > 1 /\ calls[2].op = "sort"
                  THEN <<<<Head(calls).term>> \o Head(rest)>> \o Tail(rest)
                  ELSE <<<<Head(calls).term>>>> \o rest

SourcesAccepted(args) ==
    /\ Len(args.sources) > 0
    /\ ~(args.combine \notin {CombineAnd, CombineOr} /\ Len(args.sources) > 1)

\* C9 (as stated): a TABLE query has a non-empty field list, a LIST query has
\* no field list, and a request with an empty field list is rejected with an
\* invalid-arguments failure instead of producing a query.
C9_TableHasFields ==
    /\ dqPc \in {"built", "ran"} =>
        /\ dq_type(dq) = "TABLE" => (dq.fields.t = "list" /\ Len(dq.fields.v) > 0)
        /\ dq_type(dq) = "LIST" => dq.fields = PyNone
    /\ (dqPc # "none" /\ dqArgs.fields = List(<<>>)) =>
        (dqPc = "failed" /\ dqErr = "ValueError")

\* C9 (amended): every query reachable from dataview_query and chain calls
\* carries the fields the request gave; it is a TABLE exactly when a field
\* list was given, empty or not, and a LIST exactly when none was given, and
\* its text opens accordingly; the field list never causes a rejection: a
\* request fails exactly when its sources are not accepted.
C9_TypeFollowsFields ==
    /\ dqPc \in {"built", "ran"} =>
        /\ dq.fields = dqArgs.fields
        /\ dq_type(dq) = "TABLE" <=> dqArgs.fields # PyNone
        /\ dq_type(dq) = "LIST" <=> dq.fields = PyNone
        /\ dq_type(dq) = "TABLE" => StartsWith(dq_repr(dq), <<"T", "A", "B", "L", "E", " ">>)
        /\ dq_type(dq) = "LIST" => StartsWith(dq_repr(dq), <<"L", "I", "S", "T", "\n">>)
    /\ dqPc \in {"built", "ran"} <=> (dqArgs # NoQueryArgs /\ SourcesAccepted(dqArgs))
    /\ dqPc = "failed" <=> dqErr = "ValueError"

\* a TABLE query with an empty field list, after chain calls
C9_Witness ==
    /\ dqPc = "built"
    /\ dqArgs.fields = List(<<>>)
    /\ dq_type(dq) = "TABLE"
    /\ dq.fields.v = <<>>
    /\ Len(dqCalls) > 1

\* C10 (as stated): whatever chain calls were made, the query holds at most
\* one SORT clause, and that clause holds the terms of all sort calls,
\* comma-separated and in call order.
C10_SingleSortClause ==
    dqPc \in {"built", "ran"} =>
        /\ Len(SortClauses(dq)) <= 1
        /\ SortTerms(dqCalls) # <<>> =>
            SortClauses(dq) = <<SortWord \o Join(<<",", " ">>, SortTerms(dqCalls))>>

\* C10 (amended): a sort call appends its term to the SORT clause only when
\* that clause is the last clause of the query, and adds a new SORT clause
\* otherwise: each run of consecutive sort calls gives one SORT clause
\* holding the terms of the run, comma-separated and in call order, so no two
\* SORT clauses are adjacent and every other call adds one clause.
C10_SortMergesIntoLastClause ==
    dqPc \in {"built", "ran"} =>
        LET runs == SortRuns(dqCalls)
        IN  /\ SortClauses(dq) = [i \in 1..Len(runs) |-> SortWord \o Join(<<",", " ">>, runs[i])]
            /\ Len(dq.statements) = Len(runs) + Len(dqCalls) - Len(SortTerms(dqCalls))
            /\ \A i \in 1..(Len(dq.statements) - 1) :
                ~(IsSortClause(dq.statements[i]) /\ IsSortClause(dq.statements[i + 1]))
            /\ (dqCalls # <<>> /\ dqCalls[Len(dqCalls)].op = "sort") =>
                IsSortClause(dq.statements[Len(dq.statements)])

\* two sort calls with another call between them
C10_Witness ==
    /\ dqPc = "built"
    /\ Len(dqCalls) = 3
    /\ dqCalls[1].op = "sort"
    /\ dqCalls[2].op = "limit"
    /\ dqCalls[3].op = "sort"
    /\ Len(SortClauses(dq)) = 2


(***************************************************************************)
(* The Note object: one fetch, on the first access, serves every access.   *)
(***************************************************************************)
\* the reply of the first fetch, as a mapping
FirstReply == noteFirst.reply.val
PlainParams == {NoteParams[i] : i \in 1..Len(NoteParams)} \ {NoteParams[4]}

\* the first request was answered with a note: a mapping holding all params
FetchSucceeded ==
    /\ noteAccesses > 0
    /\ noteFirst.reply.kind = "ok"
    /\ FirstReply.t = "dict"
    /\ \A i \in 1..Len(NoteParams) : DictHas(FirstReply, NoteParams[i])

\* the properties as the load leaves them: normalised when they are a mapping
LoadedProperties ==
    LET fetched == DictGet(FirstReply, NoteParams[4])
    IN  IF fix_properties(fetched).kind = "ok" THEN fix_properties(fetched).val ELSE fetched

\* C2: when the note/get request of a Note is answered with a note, exactly
\* one request has been issued however many accesses to content, body,
\* front_matter, properties and path_internal follow and whatever happens to
\* the note in the vault; it was issued by the first access; all five
\* attributes are set, to the values of that reply (the properties as the
\* load normalises them); and every later access returns the attribute's
\* value from that one fetch, as does the first when it returns.
C2_OneFetchServesAll ==
    FetchSucceeded =>
        /\ noteFetches = 1
        /\ noteFirst.reply.ran
        /\ \A a \in NoteAttrs : note[a] # Absent
        /\ \A param \in PlainParams : note[Attr(param)] = DictGet(FirstReply, param)
        /\ note[PropertiesAttr] = LoadedProperties
        /\ noteAccesses > 1 => noteLast.out = Returns(note[noteLast.attr])
        /\ noteFirst.ok <=> DictGet(FirstReply, NoteParams[4]).t = "dict"
        /\ (noteAccesses = 1 /\ noteFirst.ok) => noteLast.out = Returns(note[noteLast.attr])
        /\ noteLast.ran <=> noteAccesses = 1

\* three accesses, the note edited in the vault after the first
C2_Witness ==
    /\ noteAccesses = 3
    /\ noteFirst.ok
    /\ noteFirst.proc = NoteAsWritten
    /\ noteRemote = NoteAsEdited
    /\ noteFetches = 1
    /\ noteLast.attr = ContentAttr
    /\ noteLast.out = Returns(Str(<<"c">>))


(***************************************************************************)
(* The periodic-note getters: what a getter has done when it returns.      *)
(***************************************************************************)
Finished == pgPc = "done"
\* the failure is a ChildProcessError whose message says the note is missing
SaysNotFound(e) == e.kind = "ChildProcessError" /\ Contains(e.val.s, NotFoundMessage)
FirstNotFound == SaysNotFound(pgFirst)
FirstFailedOtherwise == pgFirst.kind \notin {"none", "ok"} /\ ~SaysNotFound(pgFirst)
CreationAvailable == commands_getattr(vaultCommands, creation_attribute(pgKind)).kind = "ok"

\* never more than two fetches and one creation command, at any step
AtMostOneRetry == pgFetches <= 2 /\ pgCreates <= 1 /\ (pgFetches = 2 => pgCreates = 1)

\* C1 (as stated): after a first fetch that fails with "Note couldn't be
\* found" exactly one creation command is invoked and exactly one more fetch
\* is made, a failure of that second fetch reaching the caller; any other
\* failure of the first fetch reaches the caller with no creation command and
\* no second fetch; after a first fetch that succeeds no creation command is
\* invoked.
C1_CreatesOnceAndRetriesOnce ==
    /\ AtMostOneRetry
    /\ Finished =>
        /\ FirstNotFound => (pgCreates = 1 /\ pgFetches = 2)
        /\ (FirstNotFound /\ pgSecond.kind \notin {"none", "ok"}) => pgOut = pgSecond
        /\ FirstFailedOtherwise => (pgOut = pgFirst /\ pgCreates = 0 /\ pgFetches = 1)
        /\ pgFirst.kind = "ok" => (pgCreates = 0 /\ pgFetches = 1)

\* C1 (amended): after a first fetch that fails with "Note couldn't be
\* found", the getter looks its creation command up in the vault's commands:
\* if the command is not there the lookup failure reaches the caller with no
\* command invoked and no second fetch; otherwise exactly one creation
\* command is invoked, and if it fails its failure reaches the caller with no
\* second fetch, and if it returns exactly one more fetch is made, whose
\* failure reaches the caller with no further command or fetch.  Any other
\* failure of the first fetch reaches the caller with no creation command and
\* no second fetch; after a first fetch that succeeds no creation command is
\* invoked and no second fetch is made.
C1_RetriesOnceAfterCreation ==
    /\ AtMostOneRetry
    /\ Finished =>
        /\ (FirstNotFound /\ ~CreationAvailable) =>
            (pgCreates = 0 /\ pgFetches = 1 /\ pgOut.kind = "AttributeError")
        /\ (FirstNotFound /\ CreationAvailable) =>
            /\ pgCreates = 1
            /\ pgCreate.kind # "ok" => (pgFetches = 1 /\ pgOut = pgCreate)
            /\ pgCreate.kind = "ok" =>
                /\ pgFetches = 2
                /\ pgSecond.kind # "ok" => pgOut = pgSecond
                /\ pgSecond.kind = "ok" => pgOut = new_note(pgSecond.val)
        /\ FirstFailedOtherwise => (pgOut = pgFirst /\ pgCreates = 0 /\ pgFetches = 1)
        /\ pgFirst.kind = "ok" =>
            (pgCreates = 0 /\ pgFetches = 1 /\ pgOut = new_note(pgFirst.val))

\* the note is missing, the creation command runs, the note is still missing
C1_Witness ==
    /\ Finished
    /\ FirstNotFound
    /\ pgCreates = 1
    /\ pgCreate.kind = "ok"
    /\ pgFetches = 2
    /\ SaysNotFound(pgSecond)
    /\ pgOut = pgSecond

(***************************************************************************)
(* Dataview queries: the text that is sent when a query is executed.       *)
(***************************************************************************)
RECURSIVE LinesFrom(_, _, _, _)
\* the lines of a text, read one character at a time
LinesFrom(text, i, line, lines) ==
    IF i > Len(text) THEN Append(lines, line)
    ELSE IF text[i] = "\n" THEN LinesFrom(text, i + 1, <<>>, Append(lines, line))
    ELSE LinesFrom(text, i + 1, Append(line, text[i]), lines)

SentLines == LinesFrom(dqRun.dql, 1, <<>>, <<>>)
SentClauses == Tail(Tail(SentLines))

ClauseKind(line) ==
    IF StartsWith(line, <<"W", "H", "E", "R", "E", " ">>) THEN "where"
    ELSE IF StartsWith(line, <<"F", "L", "A", "T", "T", "E", "N", " ">>) THEN "flatten"
    ELSE IF StartsWith(line, <<"G", "R", "O", "U", "P", " ", "B", "Y", " ">>) THEN "group_by"
    ELSE IF StartsWith(line, <<"S", "O", "R", "T", " ">>) THEN "sort"
    ELSE IF StartsWith(line, <<"L", "I", "M", "I", "T", " ">>) THEN "limit"
    ELSE "other"

\* the place of a kind of clause in the order WHERE, FLATTEN, GROUP BY, SORT, LIMIT
ClauseRank(kind) ==
    IF kind = "where" THEN 1 ELSE IF kind = "flatten" THEN 2 ELSE IF kind = "group_by" THEN 3
    ELSE IF kind = "sort" THEN 4 ELSE IF kind = "limit" THEN 5 ELSE 6

InFixedOrder(kinds) ==
    \A i \in 1..(Len(kinds) - 1) : ClauseRank(kinds[i]) <= ClauseRank(kinds[i + 1])

RECURSIVE KindsOf(_)
KindsOf(clauses) ==
    IF clauses = <<>> THEN <<>> ELSE <<ClauseKind(Head(clauses))>> \o KindsOf(Tail(clauses))

SentKinds == KindsOf(SentClauses)
CalledKinds == [i \in 1..Len(dqCalls) |-> dqCalls[i].op]

RECURSIVE SortsCollapsed(_)
\* the kinds, each run of consecutive sorts counted once
SortsCollapsed(kinds) ==
    IF Len(kinds) <= 1 THEN kinds
    ELSE IF kinds[1] = "sort" /\ kinds[2] = "sort" THEN SortsCollapsed(Tail(kinds))
    ELSE <<kinds[1]>> \o SortsCollapsed(Tail(kinds))

FromSecond(lines) == Len(lines) >= 2 /\ StartsWith(lines[2], <<"F", "R", "O", "M", " ">>)

\* C11 (as stated): whatever the order of the chain calls, the text sent for
\* an executed query has the FROM line and then its clauses in the fixed
\* order: all WHERE, then all FLATTEN, then all GROUP BY, then SORT, then
\* LIMIT.
C11_FixedClauseOrder ==
    dqPc = "ran" =>
        \A lines \in {SentLines} :
            FromSecond(lines) /\ \A sent \in {KindsOf(Tail(Tail(lines)))} : InFixedOrder(sent)

\* C11 (amended): the text sent for an executed query has the FROM line
\* second and then one clause per chain call in the order of the calls, each
\* run of consecutive sort calls giving one SORT clause; the clauses are in
\* the order WHERE, FLATTEN, GROUP BY, SORT, LIMIT exactly when the calls
\* were made in that order.
C11_ClausesInCallOrder ==
    dqPc = "ran" =>
        \A lines \in {SentLines} :
            /\ FromSecond(lines)
            /\ \A sent \in {KindsOf(Tail(Tail(lines)))} :
                /\ sent = SortsCollapsed(CalledKinds)
                /\ InFixedOrder(sent) <=> InFixedOrder(CalledKinds)

\* limit was called before where, and the query was executed and answered
C11_Witness ==
    /\ dqPc = "ran"
    /\ dqRun.out.kind = "ok"
    /\ \E i, j \in 1..Len(dqCalls) : i < j /\ dqCalls[i].op = "limit" /\ dqCalls[j].op = "where"
    /\ \E sent \in {SentKinds} :
        \E i, j \in 1..Len(sent) : i < j /\ sent[i] = "limit" /\ sent[j] = "where"

(***************************************************************************)
(* Arguments that are refused: what fails, and whether the helper ran.     *)
(***************************************************************************)
KeywordsWithoutAction(call) == Len(call.actions) = 0 /\ Len(call.keywords) > 0
FullUrlWithMore(call) ==
    Contains(call.app, <<":", "/">>) /\ (Len(call.actions) > 0 \/ Len(call.keywords) > 0)
ContentAndTemplate(call) == call.content # PyNone /\ call.template # PyNone
BadSources(call) ==
    \/ Len(call.sources) = 0
    \/ Len(call.sources) > 1 /\ call.combine \notin {<<"a", "n", "d">>, <<"o", "r">>}

\* the conditions on the arguments that make a call invalid
InvalidArguments(call) ==
    \/ call.op \in {"build_url", "xcall"} /\ KeywordsWithoutAction(call)
    \/ call.op = "xcall_raw" /\ (FullUrlWithMore(call) \/ KeywordsWithoutAction(call))
    \/ call.op = "note_create" /\ ContentAndTemplate(call)
    \/ call.op = "dataview_query" /\ BadSources(call)

\* xcall and xcall_raw look for the helper binary before anything else
BinaryMissing(call) == call.op \in {"xcall", "xcall_raw"} /\ ~call.proc.binary

\* C12 (as stated): every call with invalid arguments (build_url or xcall
\* with keywords and no action, xcall_raw with a full URL and actions or
\* keywords, note_create with content and template, dataview_query with no
\* source or with several sources and a combine word other than and/or)
\* fails with the invalid-arguments failure without the helper process
\* having been run; a dataview_query with one source is accepted whatever
\* its combine word.
C12_InvalidArgumentsRaised ==
    argCall.op # "none" =>
        /\ InvalidArguments(argCall) => (~argOut.ran /\ argOut.kind = "ValueError")
        /\ (argCall.op = "dataview_query" /\ Len(argCall.sources) = 1) => argOut.kind = "ok"

\* C12 (amended): every call with invalid arguments fails without the helper
\* process having been run; it fails with the invalid-arguments failure,
\* unless it is an xcall or xcall_raw made while the helper binary is
\* missing, which fails for the missing binary before its arguments are
\* looked at; a dataview_query with one source is accepted whatever its
\* combine word; a note_create with valid arguments does run the helper when
\* the binary is there.
C12_InvalidBeforeHelper ==
    argCall.op # "none" =>
        /\ InvalidArguments(argCall) =>
            /\ ~argOut.ran
            /\ argOut.kind = IF BinaryMissing(argCall) THEN "FileNotFoundError" ELSE "ValueError"
        /\ (argCall.op = "dataview_query" /\ Len(argCall.sources) = 1) => argOut.kind = "ok"
        /\ (argCall.op = "note_create" /\ ~ContentAndTemplate(argCall) /\ argCall.proc.binary) =>
            argOut.ran

\* note_create with content and template, the helper binary there and answering
C12_Witness ==
    /\ argCall.op = "note_create"
    /\ ContentAndTemplate(argCall)
    /\ argCall.proc.binary
    /\ Len(argCall.proc.stdout) > 0
    /\ argOut = Outcome("ValueError", PyNone, FALSE)

(***************************************************************************)
(* The base path of a Vault: what its accesses return and request.         *)
(***************************************************************************)
\* the info request of the first access was answered with the base path
FirstHoldsBasePath == baseOuts # <<>> /\ baseOuts[1].reply \in {InfoReply, InfoReplyAlone}

\* C13 (as stated): when the info reply holds the vault's base path, the
\* first access to base_path issues one info request and returns that base
\* path, and every later access returns the same value with no further
\* request.
C13_BasePathCachedAfterFirst ==
    FirstHoldsBasePath =>
        /\ baseRequests = 1
        /\ baseCache = Str(BasePathText)
        /\ \A i \in 1..Len(baseOuts) :
            /\ baseOuts[i].out.kind = "ok"
            /\ baseOuts[i].out.val = Str(BasePathText)
            /\ baseOuts[i].out.ran <=> i = 1

(***************************************************************************)
(* The methods of a Note that act on the remote note: what they request.   *)
(***************************************************************************)
\* the note's path in the vault, as the vault gives it for a loaded Note
PathOf(call) == IF call.note[FilepathAttr] # Absent THEN call.note[FilepathAttr] ELSE Str(call.name)

\* C14 (as stated): each of append, prepend, open, replace and delete, called
\* on a Note of an existing remote note, issues one remote action of its kind
\* whose file argument is the note's path in the vault, and returns the
\* vault's reply.
C14_EditIssuesOneAction ==
    (editCall.method # "none" /\ editCall.proc = NoteAsWritten) =>
        /\ editOut.ran
        /\ editOut = edit_request(NoteVault, editCall.method, editCall.flag, PathOf(editCall),
                                  editCall.proc)

====
